---- MODULE Spec2Model ----
(***************************************************************************)
(* A model of roastify's audio core (src/backend/audio.py): the lyric      *)
(* formatter, the rhythm-bed synthesizer, the vocal processing, the sample  *)
(* conversions, the mixer, the three-state fallback ladder of              *)
(* AudioPipeline.generate_audio, and the calls of two jobs on the event    *)
(* loop of src/backend/app.py.                                             *)
(*                                                                         *)
(* Text is a sequence of one-character strings.  An audio segment is a     *)
(* record of its length in milliseconds and of the events stamped on it.   *)
(***************************************************************************)
EXTENDS Integers, Sequences, FiniteSets, TLC

VARIABLES
    openai_client,      \* AudioPipeline.openai_client is set (an API key was configured)
    pc,                 \* position of the running generate_audio call
    ladder,             \* fallback state of the running call: "none", "A", "B", "C"
    lyrics,             \* lyrics.full_lyrics of the running call
    config,             \* the AudioConfig of the running call
    vocals_audio,       \* bytes returned by _generate_vocals
    beat_audio,         \* segment returned by _load_beat
    processed_vocals,   \* segment returned by _process_vocals
    result,             \* bytes returned by generate_audio
    raised,             \* generate_audio ended by raising to its caller
    calls,              \* speech-adapter calls of the running call, in order
    stages,             \* stages executed by the running call, in order
    invocations,        \* number of generate_audio calls started so far
    fmtIn,              \* text handed to the formatter (formatter specification)
    fmtLog,             \* every (input, output) pair the formatter produced so far
    beatReq,            \* requested rhythm bed: style and duration
    beatOut,            \* the synthesized rhythm bed
    mixIn,              \* the mixer's inputs: vocal length and bed length
    mixOut,             \* the mixer's outcome
    trace,              \* components run by the running call, in order
    vocalIn,            \* the inputs of one run of the vocal processing
    vocalOut,           \* what the vocal processing returned or raised
    castIn,             \* a sample conversion: the stage and the scaled value
    castOut,            \* the 16-bit sample the conversion wrote
    tasks,              \* the locals of the generate_audio calls running on the event loop
    running,            \* the call that holds the event loop's thread, or "none"
    beats_dir,          \* the names of the files in AudioPipeline.beats_dir
    setup,              \* how far create_sample_beats got at startup
    loadOut,            \* what _load_beat last returned for each style after startup
    active_jobs,        \* app.active_jobs: the JobStatus of every job created
    job_results,        \* app.job_results: the GenerationResult of a job
    audio_storage,      \* app.audio_storage: the audio bytes of a job
    video_storage,      \* app.video_storage: the video bytes of a job
    websocket_connections,  \* the jobs a WebSocket is registered for
    bg,                 \* the locals of the background task of every job
    gen                 \* the running call of generate_lyrics_from_search

\* the variables of the specification of the beat assets
assetVars == <<beats_dir, setup, loadOut>>

\* the variables of the specification of the jobs
jobVars == <<active_jobs, job_results, audio_storage, video_storage,
             websocket_connections, bg>>

\* the variables of the specifications of the application around the
\* pipeline
\* the variable of the specification of the lyrics generator
lyricVars == <<gen>>

appVars == <<assetVars, jobVars, lyricVars>>

\* the variables of the specifications of the vocal processing, of the
\* sample conversions, of the event loop and of the application
sideVars == <<vocalIn, vocalOut, castIn, castOut, tasks, running, appVars>>

vars == <<openai_client, pc, ladder, lyrics, config, vocals_audio, beat_audio,
          processed_vocals, result, raised, calls, stages, invocations,
          fmtIn, fmtLog, beatReq, beatOut, mixIn, mixOut, trace, sideVars>>

(***************************************************************************)
(* Bounds of the model.                                                    *)
(***************************************************************************)
MaxLines == 2          \* lines of a lyric text handed to the formatter
MaxCalls == 2          \* generate_audio calls on one pipeline instance
MaxDurUnits == 27      \* requested bed durations are 0 .. MaxDurUnits units
DurUnit == 700         \* one unit of requested bed duration, in ms
MaxVocalLen == 9       \* vocal lengths of the mixer, in ms
MaxBedLen == 9         \* bed lengths of the mixer, in ms

(***************************************************************************)
(* Python str operations used by the formatter.                            *)
(***************************************************************************)
Lowers == <<"a", "b", "c", "d", "e", "f", "g", "h", "i", "j", "k", "l", "m",
            "n", "o", "p", "q", "r", "s", "t", "u", "v", "w", "x", "y", "z">>
Uppers == <<"A", "B", "C", "D", "E", "F", "G", "H", "I", "J", "K", "L", "M",
            "N", "O", "P", "Q", "R", "S", "T", "U", "V", "W", "X", "Y", "Z">>

IsSpace(c) == c \in {" ", "\t", "\n"}

CharUpper(c) ==
    IF \E i \in 1..26 : Lowers[i] = c
    THEN Uppers[CHOOSE i \in 1..26 : Lowers[i] = c]
    ELSE c

CharLower(c) ==
    IF \E i \in 1..26 : Uppers[i] = c
    THEN Lowers[CHOOSE i \in 1..26 : Uppers[i] = c]
    ELSE c

\* str.upper()
Upper(s) == [i \in 1..Len(s) |-> CharUpper(s[i])]

\* str.lower()
Lower(s) == [i \in 1..Len(s) |-> CharLower(s[i])]

\* str.startswith(p)
StartsWith(s, p) == Len(s) >= Len(p) /\ SubSeq(s, 1, Len(p)) = p

\* str.endswith(p)
EndsWith(s, p) == Len(s) >= Len(p) /\ SubSeq(s, Len(s) - Len(p) + 1, Len(s)) = p

\* p in s
Contains(s, p) == \E i \in 1..(Len(s) - Len(p) + 1) : SubSeq(s, i, i + Len(p) - 1) = p

\* str.strip()
Strip(s) ==
    LET keep == {i \in 1..Len(s) : ~IsSpace(s[i])}
    IN  IF keep = {} THEN <<>>
        ELSE SubSeq(s, CHOOSE i \in keep : \A j \in keep : i <= j,
                       CHOOSE i \in keep : \A j \in keep : i >= j)

\* str.split(sep) for a one-character sep: the pieces between the separators
RECURSIVE SplitOn(_, _)
SplitOn(s, sep) ==
    LET hits == {i \in 1..Len(s) : s[i] = sep}
    IN  IF hits = {} THEN <<s>>
        ELSE LET k == CHOOSE i \in hits : \A j \in hits : i <= j
             IN  <<SubSeq(s, 1, k - 1)>> \o SplitOn(SubSeq(s, k + 1, Len(s)), sep)

\* str.split(): the maximal runs of non-whitespace characters
RECURSIVE SplitWords(_)
SplitWords(s) ==
    LET t == Strip(s)
        gaps == {i \in 1..Len(t) : IsSpace(t[i])}
    IN  IF t = <<>> THEN <<>>
        ELSE IF gaps = {} THEN <<t>>
        ELSE LET k == CHOOSE i \in gaps : \A j \in gaps : i <= j
             IN  <<SubSeq(t, 1, k - 1)>> \o SplitWords(SubSeq(t, k + 1, Len(t)))

\* sep.join(parts)
RECURSIVE Join(_, _)
Join(parts, sep) ==
    IF parts = <<>> THEN <<>>
    ELSE IF Len(parts) = 1 THEN parts[1]
    ELSE parts[1] \o sep \o Join(Tail(parts), sep)

\* str.replace(ch, rep) for a one-character ch
RECURSIVE Replace(_, _, _)
Replace(s, ch, rep) ==
    IF s = <<>> THEN <<>>
    ELSE (IF s[1] = ch THEN rep ELSE <<s[1]>>) \o Replace(Tail(s), ch, rep)

\* max(a, b)
Max(a, b) == IF a >= b THEN a ELSE b

(***************************************************************************)
(* The lyric-to-speech formatter.                                          *)
(***************************************************************************)
EmphasisKeywords ==
    << <<"r", "o", "a", "s", "t">>, <<"f", "i", "r", "e">>, <<"b", "u", "r", "n">>,
       <<"d", "r", "o", "p">>, <<"b", "e", "a", "t">>, <<"f", "l", "o", "w">> >>

RhymeSuffixes ==
    << <<"t", "i", "o", "n">>, <<"i", "n", "g">>, <<"i", "g", "h", "t">>,
       <<"a", "t", "e">>, <<"a", "c", "k">>, <<"o", "w">> >>

HookNames == { <<"H", "O", "O", "K">>, <<"C", "H", "O", "R", "U", "S">> }

HookPause == <<".", ".", ".", " ", "Y", "O", "!", " ", ".", ".", ".">>   \* "... YO! ..."
Pause == <<".", ".", ".">>                                               \* "..."
LineJoiner == <<" ", ".", ".", ".", " ">>                                \* " ... "
YeahMarker == <<"!", " ", "Y", "E", "A", "H", "!">>                      \* "! YEAH!"
UhMarker == <<"?", " ", "U", "H", "!">>                                  \* "? UH!"

\* (Faulty variant: the word is not lower-cased before the keywords are looked up.)
HasKeywordMissingLower(word) ==
    \E k \in 1..Len(EmphasisKeywords) : Contains(word, EmphasisKeywords[k])

\* any(keyword in word.lower() for keyword in [...])
HasKeyword(word) ==
    \E k \in 1..Len(EmphasisKeywords) : Contains(Lower(word), EmphasisKeywords[k])

\* word.endswith(('tion', 'ing', 'ight', 'ate', 'ack', 'ow'))
HasRhymeSuffix(word) ==
    \E k \in 1..Len(RhymeSuffixes) : EndsWith(word, RhymeSuffixes[k])

\* one iteration of the loop over words
EnhanceWord(word) ==
    IF HasKeyword(word) THEN Upper(word)
    ELSE IF HasRhymeSuffix(word) THEN word \o <<",">>
    ELSE word

\* the list enhanced_words
EnhancedWords(line) ==
    LET words == SplitWords(line)
    IN  [i \in 1..Len(words) |-> EnhanceWord(words[i])]

\* (Faulty variant: the two replacements in the other order, so that the
\* "!" of "? UH!" is expanded in its turn.)
_enhance_rap_line_UhFirst(line) ==
    LET enhanced_line == Join(EnhancedWords(line), <<" ">>)
    IN  Replace(Replace(enhanced_line, "?", UhMarker), "!", YeahMarker)

_enhance_rap_line(line) ==
    LET enhanced_line == Join(EnhancedWords(line), <<" ">>)
    IN  Replace(Replace(enhanced_line, "!", YeahMarker), "?", UhMarker)

\* line.startswith('[') and line.endswith(']')
IsSectionMarker(line) == StartsWith(line, <<"[">>) /\ EndsWith(line, <<"]">>)

\* line.replace('[', '').replace(']', '')
SectionName(line) == Replace(Replace(line, "[", <<>>), "]", <<>>)

\* the body of the loop over lines, for one stripped non-empty line
FormatLine(line) ==
    IF IsSectionMarker(line)
    THEN IF Upper(SectionName(line)) \in HookNames THEN HookPause ELSE Pause
    ELSE _enhance_rap_line(line)

\* the list formatted_lines
RECURSIVE FormattedLines(_)
FormattedLines(lines) ==
    IF lines = <<>> THEN <<>>
    ELSE LET line == Strip(lines[1])
         IN  (IF line = <<>> THEN <<>> ELSE <<FormatLine(line)>>)
             \o FormattedLines(Tail(lines))

\* (Faulty variant: formatted_lines kept on the pipeline instance, so a call
\* starts from the lines an earlier call left there.)
_format_lyrics_for_tts_SharedLines(text) ==
    LET earlier == IF fmtLog = {} THEN <<>> ELSE (CHOOSE e \in fmtLog : TRUE).lines
    IN  Join(earlier \o FormattedLines(SplitOn(text, "\n")), LineJoiner)

_format_lyrics_for_tts(text) ==
    Join(FormattedLines(SplitOn(text, "\n")), LineJoiner)

\* one call of the formatter, as the log keeps it: the text, the list
\* formatted_lines and the returned string
FormatCall(text) ==
    [in |-> text, lines |-> FormattedLines(SplitOn(text, "\n")),
     out |-> _format_lyrics_for_tts(text)]

(***************************************************************************)
(* The rhythm pattern synthesizer.  A segment is its length in ms and the  *)
(* sequence of tones overlaid on it; a stamp records where the tone was    *)
(* put and how much of it the segment holds.                               *)
(***************************************************************************)
PlaceholderMs == 180000     \* duration_ms = 180000
Bpm == 120                  \* bpm = 120

\* volume is in hundredths
_create_tone(frequency, duration_ms, volume) ==
    [frequency |-> frequency, ms |-> duration_ms, volume |-> volume]

\* AudioSegment.silent(duration=duration_ms)
Silent(duration_ms) == [ms |-> duration_ms, stamps |-> <<>>]

\* (Faulty variant: a tone that runs past the end lengthens the segment.)
overlay_Extending(seg, name, tone, position) ==
    [ms |-> Max(seg.ms, position + tone.ms),
     stamps |-> Append(seg.stamps, [name |-> name, tone |-> tone, at |-> position,
                                    heard |-> tone.ms])]

\* seg.overlay(tone, position=position): the result has the length of seg;
\* the tone is cut at the end of seg, and dropped when position is past it
overlay(seg, name, tone, position) ==
    LET remaining == Max(0, seg.ms - position)
    IN  [ms |-> seg.ms,
         stamps |-> Append(seg.stamps,
                           [name |-> name, tone |-> tone, at |-> position,
                            heard |-> IF tone.ms >= remaining THEN remaining ELSE tone.ms])]

\* a run of overlay calls, in order; each hit is <<name, tone, position>>.
\* (The run is split in halves, and the first half is worked out before the
\* second is entered, to keep the evaluation shallow; the calls are made
\* first to last all the same.)
RECURSIVE OverlayEach(_, _)
OverlayEach(seg, hits) ==
    IF hits = <<>> THEN seg
    ELSE IF Len(hits) = 1 THEN overlay(seg, hits[1][1], hits[1][2], hits[1][3])
    ELSE LET half == Len(hits) \div 2
             first == OverlayEach(seg, SubSeq(hits, 1, half))
         IN  IF first.ms < 0 THEN first
             ELSE OverlayEach(first, SubSeq(hits, half + 1, Len(hits)))

\* the hits of the passes of a loop, one after the other
RECURSIVE Flatten(_)
Flatten(passes) ==
    IF passes = <<>> THEN <<>>
    ELSE IF Len(passes) = 1 THEN passes[1]
    ELSE LET half == Len(passes) \div 2
         IN  Flatten(SubSeq(passes, 1, half)) \o Flatten(SubSeq(passes, half + 1, Len(passes)))

\* range(0, stop, step)
RangeFrom0(stop, step) == [i \in 1..((stop + step - 1) \div step) |-> (i - 1) * step]

\* (Faulty variant: bar_start itself is tested, and it is always a multiple of 8.)
EveryNthBar_OnStart(bar_start, bar_length, n) == bar_start % n = 0

\* (bar_start // bar_length) % n == 0
EveryNthBar(bar_start, bar_length, n) == (bar_start \div bar_length) % n = 0

\* the overlays of one pass of the loop of _create_edm_trap_beat, in order
TrapBar(bar_start, beat_interval, bar_length) ==
    LET kick == _create_tone(60, 150, 80)
        snare == _create_tone(200, 100, 60)
        hi_hat == _create_tone(8000, 25, 30)
        bass_drop == _create_tone(40, 400, 70)
        kicks == [beat \in 1..4 |-> <<"kick", kick, bar_start + (beat - 1) * beat_interval>>]
        snares == << <<"snare", snare, bar_start + beat_interval>>,
                     <<"snare", snare, bar_start + 3 * beat_interval>> >>
        offKick == SelectSeq([n \in 1..16 |-> n - 1], LAMBDA sixteenth : sixteenth % 4 # 0)
        hats == [i \in 1..Len(offKick) |->
                   <<"hi_hat", hi_hat, bar_start + offKick[i] * (beat_interval \div 4)>>]
        drop == IF EveryNthBar(bar_start, bar_length, 8)
                THEN << <<"bass_drop", bass_drop, bar_start>> >> ELSE <<>>
    IN  kicks \o snares \o hats \o drop

\* the overlays of one pass of the loop of _create_edm_house_beat, in order
HouseBar(bar_start, beat_interval, bar_length) ==
    LET kick == _create_tone(80, 120, 90)
        clap == _create_tone(1500, 80, 50)
        hi_hat_closed == _create_tone(12000, 20, 20)
        hi_hat_open == _create_tone(8000, 60, 30)
        kicks == [beat \in 1..4 |-> <<"kick", kick, bar_start + (beat - 1) * beat_interval>>]
        claps == << <<"clap", clap, bar_start + beat_interval>>,
                    <<"clap", clap, bar_start + 3 * beat_interval>> >>
        offBeats == SelectSeq([n \in 1..8 |-> n - 1], LAMBDA eighth : eighth % 2 = 1)
        hats == [i \in 1..Len(offBeats) |->
                   IF offBeats[i] = 7
                   THEN <<"hi_hat_open", hi_hat_open,
                          bar_start + offBeats[i] * (beat_interval \div 2)>>
                   ELSE <<"hi_hat_closed", hi_hat_closed,
                          bar_start + offBeats[i] * (beat_interval \div 2)>>]
    IN  kicks \o claps \o hats

\* (Faulty variant: the fractional beat is truncated before it is scaled,
\* int(beats) * beat_interval.)
FractionalBeat_TruncatedFirst(quarters, beat_interval) == (quarters \div 4) * beat_interval

\* int(beats * beat_interval) for beats given in quarters of a beat
FractionalBeat(quarters, beat_interval) == (quarters * beat_interval) \div 4

\* the overlays of one pass of the loop of _create_progressive_beat, in order
ProgressiveBar(bar_start, beat_interval, bar_length) ==
    LET kick == _create_tone(70, 180, 80)
        snare == _create_tone(250, 90, 40)
        perc == _create_tone(4000, 30, 25)
        bass == _create_tone(55, 300, 60)
        kick_pattern == <<0, 10, 14>>       \* [0, 2.5, 3.5]
        perc_pattern == <<6, 11, 13>>       \* [1.5, 2.75, 3.25]
        kicks == [i \in 1..3 |->
                    <<"kick", kick, bar_start + FractionalBeat(kick_pattern[i], beat_interval)>>]
        snares == << <<"snare", snare, bar_start + beat_interval>> >>
        percs == [i \in 1..3 |->
                    <<"perc", perc, bar_start + FractionalBeat(perc_pattern[i], beat_interval)>>]
        line == IF EveryNthBar(bar_start, bar_length, 2)
                THEN << <<"bass", bass, bar_start>> >> ELSE <<>>
    IN  kicks \o snares \o percs \o line

\* for bar_start in range(0, duration_ms, bar_length): ... overlay ...
_create_edm_trap_beat(base_beat, beat_interval, bar_length, duration_ms) ==
    LET bars == RangeFrom0(duration_ms, bar_length)
    IN  OverlayEach(base_beat,
                    Flatten([i \in 1..Len(bars) |-> TrapBar(bars[i], beat_interval, bar_length)]))

_create_edm_house_beat(base_beat, beat_interval, bar_length, duration_ms) ==
    LET bars == RangeFrom0(duration_ms, bar_length)
    IN  OverlayEach(base_beat,
                    Flatten([i \in 1..Len(bars) |-> HouseBar(bars[i], beat_interval, bar_length)]))

_create_progressive_beat(base_beat, beat_interval, bar_length, duration_ms) ==
    LET bars == RangeFrom0(duration_ms, bar_length)
    IN  OverlayEach(base_beat,
                    Flatten([i \in 1..Len(bars) |->
                               ProgressiveBar(bars[i], beat_interval, bar_length)]))

\* the body of _create_placeholder_beat for a bed of duration_ms
PlaceholderBeat(beat_type, duration_ms) ==
    LET beat == Silent(duration_ms)
        beat_interval == 60000 \div Bpm
        bar_length == beat_interval * 4
    IN  IF beat_type = "trap"
        THEN _create_edm_trap_beat(beat, beat_interval, bar_length, duration_ms)
        ELSE IF beat_type = "boom_bap"
        THEN _create_edm_house_beat(beat, beat_interval, bar_length, duration_ms)
        ELSE _create_progressive_beat(beat, beat_interval, bar_length, duration_ms)

_create_placeholder_beat(beat_type) == PlaceholderBeat(beat_type, PlaceholderMs)

(***************************************************************************)
(* Vocal processing: the effects chain, its pydub-only fallback and the    *)
(* tempo synchronizer.  A vocal segment is its length in ms, the chain     *)
(* that processed it and whether it was time-stretched.  What the audio    *)
(* libraries do with a call (return or raise, the tempo they estimate) is  *)
(* an input, env.                                                          *)
(***************************************************************************)
\* the steps of the try block of _apply_audio_effects: samples to a float
\* array, the pedalboard, the clip, the cast to int16, the new AudioSegment
MainChainSteps == <<"samples", "board", "clip", "cast", "segment">>

\* the steps of _apply_basic_effects
BasicChainSteps == <<"compress", "low_pass", "high_pass", "gain", "normalize">>

Range(seq) == {seq[i] : i \in 1..Len(seq)}

\* the step of a chain that raises, or "none"
MainFailures == {"none"} \cup Range(MainChainSteps)
BasicFailures == {"none"} \cup Range(BasicChainSteps)

NoSegment ==
    [src |-> "none", style |-> "none", fx |-> "none", steps |-> <<>>, sync |-> "none", ms |-> 0]

\* AudioSegment.from_file(io.BytesIO(vocals_bytes), format="mp3"), normalized
DecodedVocal(ms) ==
    [src |-> "speech", style |-> "none", fx |-> "none", steps |-> <<>>, sync |-> "none",
     ms |-> ms]

\* the steps of a chain applied to a segment one after the other, up to the
\* step that raises
RECURSIVE RunChain(_, _, _)
RunChain(audio, chain, fails) ==
    IF chain = <<>> THEN [state |-> "ok", audio |-> audio]
    ELSE IF Head(chain) = fails THEN [state |-> "raised", audio |-> audio]
    ELSE RunChain([audio EXCEPT !.steps = Append(@, Head(chain))], Tail(chain), fails)

\* _apply_basic_effects has no try block: what a step raises leaves the call
_apply_basic_effects(audio, fails) ==
    LET run == RunChain(audio, BasicChainSteps, fails)
    IN  IF run.state = "ok"
        THEN [state |-> "ok", chain |-> "basic", audio |-> [run.audio EXCEPT !.fx = "basic"]]
        ELSE [state |-> "raised", chain |-> "basic", audio |-> audio]

\* _apply_audio_effects: the try block, and in its except clause the call
\* of _apply_basic_effects on the untouched input
_apply_audio_effects(audio, mainFails, basicFails) ==
    LET run == RunChain(audio, MainChainSteps, mainFails)
    IN  IF run.state = "ok"
        THEN [state |-> "ok", chain |-> "main", audio |-> [run.audio EXCEPT !.fx = "main"]]
        ELSE _apply_basic_effects(audio, basicFails)

Abs(x) == IF x < 0 THEN 0 - x ELSE x

\* (Faulty variant: a drift of exactly a tenth is adjusted too.)
SignificantDrift_Inclusive(current_bpm, target_bpm) ==
    Abs(current_bpm - 10 * target_bpm) >= Abs(target_bpm)

\* abs(stretch_ratio - 1.0) > 0.1 for stretch_ratio = current_bpm / target_bpm,
\* with current_bpm in tenths of a BPM and target_bpm, not 0, in whole BPM:
\* |c / (10 t) - 1| > 1/10 is |c - 10 t| > |t|
SignificantDrift(current_bpm, target_bpm) ==
    Abs(current_bpm - 10 * target_bpm) > Abs(target_bpm)

\* librosa.effects.time_stretch(samples, rate=current_bpm / target_bpm): the
\* length is divided by the rate
Stretched(vocals, current_bpm, target_bpm) ==
    [vocals EXCEPT !.sync = "stretched", !.ms = (vocals.ms * 10 * target_bpm) \div current_bpm]

\* (Faulty variant: the stretch ratio is worked out before the try block is
\* entered, so a target of 0 raises out of the call.)
_sync_to_bpm_RatioOutsideTry(vocals, target_bpm, tempo, stretchable) ==
    IF target_bpm = 0
    THEN [state |-> "raised", how |-> "ratio", audio |-> vocals]
    ELSE IF ~tempo.ok
    THEN [state |-> "ok", how |-> "caught", audio |-> vocals]
    ELSE IF SignificantDrift(tempo.bpm, target_bpm)
    THEN IF tempo.bpm * target_bpm <= 0 \/ ~stretchable
         THEN [state |-> "ok", how |-> "caught", audio |-> vocals]
         ELSE [state |-> "ok", how |-> "stretched",
               audio |-> Stretched(vocals, tempo.bpm, target_bpm)]
    ELSE [state |-> "ok", how |-> "unchanged", audio |-> vocals]

\* _sync_to_bpm: the whole body is a try block whose except clause returns
\* vocals.  tempo is what beat_track does: it raises (ok is false) or
\* estimates bpm, in tenths of a BPM; the division by a target of 0 raises;
\* time_stretch raises for a rate that is not positive and when stretchable
\* is false.
_sync_to_bpm(vocals, target_bpm, tempo, stretchable) ==
    IF ~tempo.ok \/ target_bpm = 0
    THEN [state |-> "ok", how |-> "caught", audio |-> vocals]
    ELSE IF SignificantDrift(tempo.bpm, target_bpm)
    THEN IF tempo.bpm * target_bpm <= 0 \/ ~stretchable
         THEN [state |-> "ok", how |-> "caught", audio |-> vocals]
         ELSE [state |-> "ok", how |-> "stretched",
               audio |-> Stretched(vocals, tempo.bpm, target_bpm)]
    ELSE [state |-> "ok", how |-> "unchanged", audio |-> vocals]

\* one entry of the list of components a call ran
Ran(step, ok, how, out) == [step |-> step, ok |-> ok, how |-> how, out |-> out]

\* _process_vocals: decode and normalize, effects, tempo sync; what a
\* component raises leaves _process_vocals, which has no try block.  The
\* peak normalization, normalize(vocals), is a statement of _process_vocals
\* itself, before _apply_audio_effects is called.
_process_vocals(vocals_bytes, target_bpm, env) ==
    IF vocals_bytes.size = 0 \/ ~env.decoded
    THEN [state |-> "raised", at |-> "decode", audio |-> NoSegment,
          ran |-> <<Ran("decode", FALSE, "raised", NoSegment)>>]
    ELSE IF ~env.normalized
    THEN [state |-> "raised", at |-> "normalize", audio |-> NoSegment,
          ran |-> <<Ran("decode", FALSE, "normalize", NoSegment)>>]
    ELSE LET vocals == DecodedVocal(env.ms)
             fx == _apply_audio_effects(vocals, env.mainFails, env.basicFails)
             synced == _sync_to_bpm(fx.audio, target_bpm, env.tempo, env.stretchable)
             decode == Ran("decode", TRUE, "normalized", vocals)
         IN  IF fx.state = "raised"
             THEN [state |-> "raised", at |-> "effects", audio |-> NoSegment,
                   ran |-> <<decode, Ran("effects", FALSE, fx.chain, vocals)>>]
             ELSE IF synced.state = "raised"
             THEN [state |-> "raised", at |-> "sync", audio |-> NoSegment,
                   ran |-> <<decode, Ran("effects", TRUE, fx.chain, fx.audio),
                             Ran("sync", FALSE, synced.how, fx.audio)>>]
             ELSE [state |-> "ok", at |-> "none", audio |-> synced.audio,
                   ran |-> <<decode, Ran("effects", TRUE, fx.chain, fx.audio),
                             Ran("sync", TRUE, synced.how, synced.audio)>>]

(***************************************************************************)
(* The mixer.  A segment is its length in ms and the gain applied to it.   *)
(***************************************************************************)
VocalGainDb == 12          \* vocals.apply_gain(+12)
BeatGainDb == 6            \* beat.apply_gain(-6)

MixBitrate == 192          \* bitrate="192k"

\* no mix was made yet
MixIdle == [state |-> "idle", beat_ms |-> 0, ms |-> 0, kbps |-> 0, steps |-> <<>>]

\* loops_needed = (vocals_duration // len(beat)) + 1
LoopsNeeded(vocals_duration, beat_ms) == (vocals_duration \div beat_ms) + 1

\* beat[:vocals_duration]
SliceTo(seg, ms) == [seg EXCEPT !.ms = IF seg.ms < ms THEN seg.ms ELSE ms]

\* seg.apply_gain(db)
apply_gain(seg, db) == [seg EXCEPT !.gain = seg.gain + db]

\* a statement of _mix_audio that was run: what it does, to which signal,
\* and by how many dB or at how many kbps
MixStep(op, on, by) == [op |-> op, on |-> on, by |-> by]

\* (Faulty variant: the mix is normalized before the bed is laid under the
\* vocal, so the vocal alone is normalized.)
MixStatements_NormalizeFirst(looping, loud, quiet) ==
    (IF looping THEN <<MixStep("loop", "beat", 0)>> ELSE <<>>)
    \o << MixStep("trim", "beat", 0),
          MixStep("gain", "vocals", loud.gain),
          MixStep("gain", "beat", quiet.gain),
          MixStep("normalize", "vocals", 0),
          MixStep("overlay", "mixed", 0),
          MixStep("export", "mixed", MixBitrate) >>

\* the statements of _mix_audio in the order they are run: the loop of the
\* bed if it is shorter than the vocal, the trim, the two gains, the
\* overlay, normalize(mixed), the export
MixStatements(looping, loud, quiet) ==
    (IF looping THEN <<MixStep("loop", "beat", 0)>> ELSE <<>>)
    \o << MixStep("trim", "beat", 0),
          MixStep("gain", "vocals", loud.gain),
          MixStep("gain", "beat", quiet.gain),
          MixStep("overlay", "mixed", 0),
          MixStep("normalize", "mixed", 0),
          MixStep("export", "mixed", MixBitrate) >>

\* _mix_audio on a vocal and a bed; raises ZeroDivisionError when an empty
\* bed has to be looped
_mix_audio(vocals, beat) ==
    LET vocals_duration == vocals.ms
        looping == beat.ms < vocals_duration
    IN  IF looping /\ beat.ms = 0
        THEN [state |-> "raised", beat_ms |-> 0, ms |-> 0, kbps |-> 0, steps |-> <<>>]
        ELSE LET looped == IF looping
                           THEN [beat EXCEPT !.ms = beat.ms * LoopsNeeded(vocals_duration, beat.ms)]
                           ELSE beat
                 trimmed == SliceTo(looped, vocals_duration)
                 loud == apply_gain(vocals, VocalGainDb)
                 quiet == apply_gain(trimmed, 0 - BeatGainDb)
                 mixed == [ms |-> loud.ms, gain |-> 0]          \* vocals.overlay(beat)
             IN  [state |-> "ok", beat_ms |-> quiet.ms, ms |-> mixed.ms, kbps |-> MixBitrate,
                  steps |-> MixStatements(looping, loud, quiet)]

(***************************************************************************)
(* The pipeline orchestrator: AudioPipeline.generate_audio and its         *)
(* fallback ladder.  One action per awaited stage of the call; a stage     *)
(* that calls outside the pipeline (speech adapter, decoder, encoder,      *)
(* effects engine) succeeds or raises as the environment decides.          *)
(***************************************************************************)
\* lyrics.full_lyrics of the calls: sections on their own lines (the layout
\* _create_simple_fallback_lyrics writes) and markers inline (the layout of
\* the sample lyrics of tests/test_audio.py)
LyricsOwnLine ==      \* "[HOOK]\nspit fire!"
    <<"[", "H", "O", "O", "K", "]", "\n", "s", "p", "i", "t", " ", "f", "i", "r", "e", "!">>
LyricsInline ==       \* "[HOOK] Test fire"
    <<"[", "H", "O", "O", "K", "]", " ", "T", "e", "s", "t", " ", "f", "i", "r", "e">>
LyricsPool == {LyricsOwnLine, LyricsInline}

Styles == {"trap", "boom_bap", "lofi"}

\* AudioConfig.speed in tenths: 1.0, 1.1 (the default), 1.5
Speeds == {10, 11, 15}

\* AudioConfig.target_bpm: the default, and 0
PipelineTargets == {90, 0}

MinRapSpeed == 12          \* max(config.speed, 1.2)
SilenceMs == 30000         \* AudioSegment.silent(duration=30000)

\* what the speech adapter does with one call: raises, returns audio bytes,
\* or returns an empty body
AdapterOutcomes == {"fail", "ok", "empty"}

NoBytes == [kind |-> "none", text |-> <<>>, speed |-> 0, size |-> 0, ms |-> 0, kbps |-> 0]

\* response.content of a speech call
SpeechBytes(text, speed, outcome) ==
    [kind |-> "speech", text |-> text, speed |-> speed,
     size |-> IF outcome = "empty" THEN 0 ELSE 1, ms |-> 0, kbps |-> 0]

\* the table beat_files of _load_beat
beat_files ==
    [trap |-> "trap_beat.mp3", boom_bap |-> "boom_bap.mp3", lofi |-> "lofi_beat.mp3"]

NoBed == [src |-> "none", style |-> "none", file |-> "none", ms |-> 0, voices |-> {}]

\* what _create_placeholder_beat returns for each style, kept as its length
\* and the instruments stamped on it
PlaceholderBeds ==
    [s \in Styles |->
       LET bed == _create_placeholder_beat(s)
       IN  [ms |-> bed.ms, voices |-> {bed.stamps[i].name : i \in 1..Len(bed.stamps)}]]

\* what the beat file of a style does when _load_beat looks for it: it is
\* missing, it exists and from_file raises, or it loads as a bed of ms
BeatAssets ==
    { [state |-> "missing", ms |-> 0], [state |-> "corrupt", ms |-> 0],
      [state |-> "ok", ms |-> 0], [state |-> "ok", ms |-> 120000] }

\* the placeholder bed of a style, as _load_beat returns it
SynthesizedBed(beat_type) ==
    [state |-> "ok",
     bed |-> [src |-> "synth", style |-> beat_type, file |-> "none",
              ms |-> PlaceholderBeds[beat_type].ms,
              voices |-> PlaceholderBeds[beat_type].voices]]

\* (Faulty variant: AudioSegment.from_file is called outside a try block.)
_load_beat_Unguarded(beat_type, asset) ==
    IF asset.state = "missing" THEN SynthesizedBed(beat_type)
    ELSE IF asset.state = "corrupt" THEN [state |-> "raised", bed |-> NoBed]
    ELSE [state |-> "ok",
          bed |-> [src |-> "file", style |-> beat_type, file |-> beat_files[beat_type],
                   ms |-> asset.ms, voices |-> {}]]

\* _load_beat: the placeholder when the file does not exist, the file when
\* it loads, and in the except clause the placeholder again
_load_beat(beat_type, asset) ==
    IF asset.state = "missing" THEN SynthesizedBed(beat_type)
    ELSE IF asset.state = "corrupt" THEN SynthesizedBed(beat_type)
    ELSE [state |-> "ok",
          bed |-> [src |-> "file", style |-> beat_type, file |-> beat_files[beat_type],
                   ms |-> asset.ms, voices |-> {}]]

\* what the audio libraries do during one _process_vocals of a call
PipelineEnvs ==
    [decoded : BOOLEAN, normalized : BOOLEAN, ms : {3000}, mainFails : {"none", "board"},
     basicFails : {"none", "compress"},
     tempo : {[ok |-> FALSE, bpm |-> 0], [ok |-> TRUE, bpm |-> 900], [ok |-> TRUE, bpm |-> 1200]},
     stretchable : BOOLEAN]

\* an entry of trace: a component run in a state of the ladder
InState(st, r) == [state |-> st, step |-> r.step, ok |-> r.ok, how |-> r.how, out |-> r.out]

\* the entries of a formatter call followed by a speech-adapter call
SpeechTrace(st, outcome) ==
    << InState(st, Ran("format", TRUE, "formatted", NoSegment)),
       InState(st, Ran("speech", outcome # "fail", outcome, NoSegment)) >>

InitPipeline ==
    /\ openai_client \in BOOLEAN
    /\ pc = "idle"
    /\ ladder = "none"
    /\ lyrics = <<>>
    /\ config = [speed |-> 11, beat_type |-> "trap", target_bpm |-> 90]
    /\ vocals_audio = NoBytes
    /\ beat_audio = NoBed
    /\ processed_vocals = NoSegment
    /\ result = NoBytes
    /\ raised = FALSE
    /\ calls = <<>>
    /\ stages = <<>>
    /\ trace = <<>>
    /\ invocations = 0

\* (Faulty variant: the first failed speech call is made once more.)
RaiseInA_RetrySpeech(stage) ==
    /\ stages' = Append(stages, [state |-> "A", stage |-> stage, ok |-> FALSE])
    /\ IF stage = "speech" /\ openai_client /\ calls = <<>>
       THEN ladder' = "A" /\ pc' = "vocals"
       ELSE ladder' = "B" /\ pc' = "fallback"

\* a stage of State A raised: generate_audio's except clause calls
\* _generate_fallback_audio, which is State B
RaiseInA(stage) ==
    /\ stages' = Append(stages, [state |-> "A", stage |-> stage, ok |-> FALSE])
    /\ ladder' = "B"
    /\ pc' = "fallback"

\* (Faulty variant: the mix is made right after the bed, on the raw vocal.)
DoneInA_MixBeforeProcess(stage, next) ==
    /\ stages' = Append(stages, [state |-> "A", stage |-> stage, ok |-> TRUE])
    /\ pc' = IF next = "process" THEN "mix" ELSE next
    /\ UNCHANGED ladder

\* a stage of State A returned: the next statement of the try block runs
DoneInA(stage, next) ==
    /\ stages' = Append(stages, [state |-> "A", stage |-> stage, ok |-> TRUE])
    /\ pc' = next
    /\ UNCHANGED ladder

\* generate_audio is called: the try block is entered
GenerateAudio_Call ==
    /\ pc \in {"idle", "done"}
    /\ invocations < MaxCalls
    /\ invocations' = invocations + 1
    /\ lyrics' \in LyricsPool
    /\ config' \in [speed : Speeds, beat_type : Styles, target_bpm : PipelineTargets]
    /\ pc' = "vocals"
    /\ ladder' = "A"
    /\ vocals_audio' = NoBytes
    /\ beat_audio' = NoBed
    /\ processed_vocals' = NoSegment
    /\ result' = NoBytes
    /\ raised' = FALSE
    /\ calls' = <<>>
    /\ stages' = <<>>
    /\ trace' = <<>>
    /\ UNCHANGED <<openai_client, fmtIn, fmtLog, beatReq, beatOut, mixIn, sideVars, mixOut>>

\* Step 1: vocals_audio = await self._generate_vocals(lyrics, audio_config)
GenerateAudio_Vocals ==
    /\ pc = "vocals"
    /\ IF ~openai_client
       THEN /\ RaiseInA("speech")
            /\ trace' = Append(trace, InState("A", Ran("speech", FALSE, "unavailable",
                                                       NoSegment)))
            /\ UNCHANGED <<calls, fmtLog, vocals_audio>>
       ELSE LET tts_text == FormatCall(lyrics).out
                rap_speed == Max(config.speed, MinRapSpeed)
            IN  /\ fmtLog' = fmtLog \cup {FormatCall(lyrics)}
                /\ \E outcome \in AdapterOutcomes :
                     /\ calls' = Append(calls, [state |-> "A", text |-> tts_text,
                                                speed |-> rap_speed, outcome |-> outcome])
                     /\ trace' = trace \o SpeechTrace("A", outcome)
                     /\ IF outcome = "fail"
                        THEN RaiseInA("speech") /\ UNCHANGED vocals_audio
                        ELSE /\ DoneInA("speech", "beat")
                             /\ vocals_audio' = SpeechBytes(tts_text, rap_speed, outcome)
    /\ UNCHANGED <<openai_client, lyrics, config, beat_audio, processed_vocals, result,
                   raised, invocations, fmtIn, beatReq, beatOut, mixIn, sideVars, mixOut>>

\* Step 2: beat_audio = await self._load_beat(audio_config.beat_type)
GenerateAudio_Beat ==
    /\ pc = "beat"
    /\ \E asset \in BeatAssets :
         LET loaded == _load_beat(config.beat_type, asset)
         IN  /\ trace' = Append(trace, InState("A", Ran("bed", loaded.state = "ok",
                                                        asset.state, NoSegment)))
             /\ IF loaded.state = "ok"
                THEN DoneInA("bed", "process") /\ beat_audio' = loaded.bed
                ELSE RaiseInA("bed") /\ UNCHANGED beat_audio
    /\ UNCHANGED <<openai_client, lyrics, config, vocals_audio, processed_vocals, result,
                   raised, calls, invocations, fmtIn, fmtLog, beatReq, beatOut, mixIn,
                   sideVars, mixOut>>

\* Step 3: processed_vocals = await self._process_vocals(vocals_audio, audio_config)
GenerateAudio_Process ==
    /\ pc = "process"
    /\ \E env \in PipelineEnvs :
         LET done == _process_vocals(vocals_audio, config.target_bpm, env)
         IN  /\ trace' = trace \o [i \in 1..Len(done.ran) |-> InState("A", done.ran[i])]
             /\ IF done.state = "raised"
                THEN RaiseInA(done.at) /\ UNCHANGED processed_vocals
                ELSE DoneInA("process", "mix") /\ processed_vocals' = done.audio
    /\ UNCHANGED <<openai_client, lyrics, config, vocals_audio, beat_audio, result,
                   raised, calls, invocations, fmtIn, fmtLog, beatReq, beatOut, mixIn,
                   sideVars, mixOut>>

\* Step 4: final_mix = await self._mix_audio(...); return final_mix
\* exported: mixed.export writes the encoded mix
GenerateAudio_Mix ==
    /\ pc = "mix"
    /\ \E exported \in BOOLEAN :
         LET mixed == _mix_audio([ms |-> processed_vocals.ms, gain |-> 0],
                                 [ms |-> beat_audio.ms, gain |-> 0])
             returned == mixed.state = "ok" /\ exported
         IN  /\ trace' = Append(trace, InState("A", Ran("mix", returned, mixed.state,
                                                        processed_vocals)))
             /\ IF returned
                THEN /\ DoneInA("mix", "done")
                     /\ result' = [kind |-> "mix", text |-> vocals_audio.text,
                                   speed |-> vocals_audio.speed, size |-> 1,
                                   ms |-> mixed.ms, kbps |-> mixed.kbps]
                ELSE RaiseInA("mix") /\ UNCHANGED result
    /\ UNCHANGED <<openai_client, lyrics, config, vocals_audio, beat_audio, processed_vocals,
                   raised, calls, invocations, fmtIn, fmtLog, beatReq, beatOut, mixIn,
                   sideVars, mixOut>>

\* the try block of _generate_fallback_audio raised: its except clause is
\* State C.  (Faulty variant: go back to the full pipeline instead.)
RaiseInB_Retry ==
    /\ ladder' = "A"
    /\ pc' = "vocals"

RaiseInB ==
    /\ ladder' = "C"
    /\ pc' = "silence"

\* speed=config.speed in State B.  (Faulty variant: State A's rap_speed.)
FallbackSpeed_Rap == Max(config.speed, MinRapSpeed)

FallbackSpeed == config.speed

\* State B: the try block of _generate_fallback_audio
Fallback_TTS ==
    /\ pc = "fallback"
    /\ IF ~openai_client
       THEN /\ stages' = Append(stages, [state |-> "B", stage |-> "speech", ok |-> FALSE])
            /\ trace' = Append(trace, InState("B", Ran("speech", FALSE, "unavailable",
                                                       NoSegment)))
            /\ RaiseInB
            /\ UNCHANGED <<calls, fmtLog, result>>
       ELSE LET tts_text == FormatCall(lyrics).out
            IN  /\ fmtLog' = fmtLog \cup {FormatCall(lyrics)}
                /\ \E outcome \in AdapterOutcomes :
                     /\ calls' = Append(calls, [state |-> "B", text |-> tts_text,
                                                speed |-> FallbackSpeed, outcome |-> outcome])
                     /\ stages' = Append(stages, [state |-> "B", stage |-> "speech",
                                                  ok |-> outcome # "fail"])
                     /\ trace' = trace \o SpeechTrace("B", outcome)
                     /\ IF outcome = "fail"
                        THEN RaiseInB /\ UNCHANGED result
                        ELSE /\ result' = SpeechBytes(tts_text, FallbackSpeed, outcome)
                             /\ pc' = "done"
                             /\ UNCHANGED ladder
    /\ UNCHANGED <<openai_client, lyrics, config, vocals_audio, beat_audio, processed_vocals,
                   raised, invocations, fmtIn, beatReq, beatOut, mixIn, sideVars, mixOut>>

\* State C: the except block of _generate_fallback_audio; nothing catches
\* what silence.export raises
Fallback_Silence ==
    /\ pc = "silence"
    /\ \E encoded \in BOOLEAN :
         /\ stages' = Append(stages, [state |-> "C", stage |-> "silence", ok |-> encoded])
         /\ trace' = Append(trace, InState("C", Ran("silence", encoded, "export", NoSegment)))
         /\ IF encoded
            THEN /\ result' = [kind |-> "silence", text |-> <<>>, speed |-> 0, size |-> 1,
                               ms |-> SilenceMs, kbps |-> 0]
                 /\ UNCHANGED raised
            ELSE raised' = TRUE /\ UNCHANGED result
    /\ pc' = "done"
    /\ UNCHANGED <<openai_client, ladder, lyrics, config, vocals_audio, beat_audio,
                   processed_vocals, calls, invocations, fmtIn, fmtLog, beatReq, beatOut,
                   mixIn, sideVars, mixOut>>

\* no run of the vocal processing, no sample conversion and no call on the
\* event loop
\* (the three side specifications at rest)
VocalIdle ==
    /\ vocalIn = [size |-> 0, target_bpm |-> 0]
    /\ vocalOut = [state |-> "idle"]

CastIdle ==
    /\ castIn = [stage |-> "none", x |-> 0, k |-> 0]
    /\ castOut = [state |-> "idle"]

LoopIdle ==
    /\ tasks = <<>>
    /\ running = "none"

\* no beat file was written or looked up
NotLoaded == [s \in Styles |-> [state |-> "idle"]]

AssetIdle ==
    /\ beats_dir = {}
    /\ setup = "idle"
    /\ loadOut = NotLoaded

\* no job was created
JobIdle ==
    /\ active_jobs = <<>>
    /\ job_results = <<>>
    /\ audio_storage = <<>>
    /\ video_storage = <<>>
    /\ websocket_connections = {}
    /\ bg = <<>>

\* generate_lyrics_from_search was not called
LyricIdle == gen = [pc |-> "idle"]

AppIdle == AssetIdle /\ JobIdle /\ LyricIdle

SideIdle == VocalIdle /\ CastIdle /\ LoopIdle /\ AppIdle

InitIdleRest ==
    /\ fmtIn = <<>>
    /\ fmtLog = {}
    /\ beatReq = [style |-> "none", duration_ms |-> 0]
    /\ beatOut = [made |-> FALSE, ms |-> 0, stamps |-> <<>>]
    /\ mixIn = [vocal |-> 0, bed |-> 0]
    /\ mixOut = MixIdle
    /\ SideIdle

Init == InitPipeline /\ InitIdleRest

Next ==
    \/ GenerateAudio_Call
    \/ GenerateAudio_Vocals
    \/ GenerateAudio_Beat
    \/ GenerateAudio_Process
    \/ GenerateAudio_Mix
    \/ Fallback_TTS
    \/ Fallback_Silence

Spec == Init /\ [][Next]_vars

(***************************************************************************)
(* The fallback ladder: claims C1 to C4.                                   *)
(***************************************************************************)
AFailed == \E i \in 1..Len(stages) : stages[i].state = "A" /\ ~stages[i].ok
BFailed == \E i \in 1..Len(stages) : stages[i].state = "B" /\ ~stages[i].ok
IsSilence(b) == b.kind = "silence" /\ b.ms = SilenceMs /\ b.size > 0

\* C1: every generate_audio call ends by returning a non-empty byte payload;
\* it never ends by raising to its caller.
C1_Total == pc = "done" => (~raised /\ result.kind # "none" /\ result.size > 0)

\* C2: within one call the ladder moves only A -> B -> C: it leaves A only
\* for B and only when a stage of A has just failed, it leaves B only for C
\* and only when State B has just failed, and every stage that runs belongs
\* to the state the ladder is in (no stage of an earlier state runs again).
C2_LadderOneWay ==
    [][invocations' = invocations =>
        /\ ladder' # ladder =>
             LET last == stages'[Len(stages')]
             IN  /\ Len(stages') = Len(stages) + 1
                 /\ last.state = ladder
                 /\ ~last.ok
                 /\ \/ ladder = "A" /\ ladder' = "B"
                    \/ ladder = "B" /\ ladder' = "C"
        /\ stages' # stages =>
             /\ Len(stages') = Len(stages) + 1
             /\ SubSeq(stages', 1, Len(stages)) = stages
             /\ stages'[Len(stages')].state = ladder
      ]_vars

\* C2 witness: a call went down the whole ladder and ended in State C.
C2_Witness ==
    /\ pc = "done"
    /\ ladder = "C"
    /\ AFailed
    /\ BFailed
    /\ stages[Len(stages)].state = "C"

\* C3: State B is entered exactly when a stage of State A failed; every
\* State-B adapter call is made on the formatted lyrics at config.speed;
\* State B runs no bed, effects or mix stage and returns the adapter's
\* bytes as they are; a call that ends in State A returns the mixer's
\* output and made no State-B adapter call.
C3_StateB ==
    /\ ladder \in {"B", "C"} <=> AFailed
    /\ \A i \in 1..Len(calls) :
         calls[i].state = "B" =>
           /\ calls[i].text = _format_lyrics_for_tts(lyrics)
           /\ calls[i].speed = config.speed
    /\ \A i \in 1..Len(stages) :
         stages[i].state = "B" =>
           /\ stages[i].stage = "speech"
           /\ \A j \in i..Len(stages) : stages[j].state # "A"
    /\ (pc = "done" /\ ladder = "B") =>
         LET call == calls[Len(calls)]
         IN  /\ call.state = "B"
             /\ call.outcome # "fail"
             /\ result = SpeechBytes(call.text, config.speed, call.outcome)
    /\ (pc = "done" /\ ladder = "A") =>
         /\ result.kind = "mix"
         /\ \A i \in 1..Len(calls) : calls[i].state # "B"

\* C3 witness: a call ended in State B at a configured speed below the
\* rap minimum, returning the adapter's bytes.
C3_Witness ==
    /\ pc = "done"
    /\ ladder = "B"
    /\ config.speed < MinRapSpeed
    /\ result.kind = "speech"
    /\ result.size > 0
    /\ \E i \in 1..Len(stages) : stages[i].state = "A" /\ stages[i].stage = "mix"

\* C4: a call returns the encoded 30-second silence exactly when State B
\* failed, and with no speech backend configured every call returns it.
C4_SilenceIffBFailed ==
    pc = "done" =>
      /\ (~raised /\ IsSilence(result)) <=> BFailed
      /\ ~openai_client => (~raised /\ IsSilence(result))

(***************************************************************************)
(* The stages of a call: claims C14 and C18 to C20.                        *)
(***************************************************************************)
\* the entries of trace for one component
TraceOf(step) == {i \in 1..Len(trace) : trace[i].step = step}

\* the ladder was in State A when entry i of trace had run: the next entry,
\* if there is one, belongs to State A, and so does the call otherwise
StillInA(i) == IF i < Len(trace) THEN trace[i + 1].state = "A" ELSE ladder = "A"

\* C14: tempo sync never raises; when estimation or stretching fails, and
\* whenever the target is 0, it hands back the segment the effects chain
\* gave it; and the call is still in State A afterwards, with the mix next.
C14_SyncNeverFatal ==
    /\ \A i \in TraceOf("sync") :
         /\ trace[i].state = "A"
         /\ trace[i].ok
         /\ trace[i - 1].step = "effects"
         /\ (trace[i].how = "caught" \/ config.target_bpm = 0) =>
              trace[i].out = trace[i - 1].out
         /\ StillInA(i)
         /\ i < Len(trace) => trace[i + 1].step = "mix"
         /\ i = Len(trace) => pc = "mix" /\ processed_vocals = trace[i].out
    /\ \A i \in 1..Len(stages) : stages[i].stage # "sync"

\* C14 witness: a call with a target of 0 BPM went through tempo sync, which
\* caught the division, and ended in State A with the mix.
C14_Witness ==
    /\ pc = "done"
    /\ ladder = "A"
    /\ config.target_bpm = 0
    /\ result.kind = "mix"
    /\ \E i \in TraceOf("sync") : trace[i].how = "caught"

\* the instruments of the bed of each style
StyleVoices ==
    [trap |-> {"kick", "snare", "hi_hat", "bass_drop"},
     boom_bap |-> {"kick", "clap", "hi_hat_closed", "hi_hat_open"},
     lofi |-> {"kick", "snare", "perc", "bass"}]

\* C18: when the beat file is missing or does not load, the bed stage
\* returns the synthesized bed of the configured style, 180000 ms long, and
\* the call is still in State A afterwards.
C18_MissingAssetSynthesizes ==
    \A i \in TraceOf("bed") :
       trace[i].how \in {"missing", "corrupt"} =>
         /\ trace[i].ok
         /\ trace[i].state = "A"
         /\ StillInA(i)
         /\ beat_audio.src = "synth"
         /\ beat_audio.style = config.beat_type
         /\ beat_audio.ms = PlaceholderMs
         /\ beat_audio.voices = StyleVoices[config.beat_type]

\* C18 witness: the boom_bap file did not load, the house-style bed was
\* synthesized, and the call ended in State A with the mix.
C18_Witness ==
    /\ pc = "done"
    /\ ladder = "A"
    /\ result.kind = "mix"
    /\ config.beat_type = "boom_bap"
    /\ beat_audio.src = "synth"
    /\ \E i \in TraceOf("bed") : trace[i].how = "corrupt"

\* C19: a call makes at most one adapter call in State A and at most one
\* in State B, the State-A call first; after a failed call no other call is
\* made in the same state; without a backend no call is made at all.
C19_NoRetry ==
    /\ Cardinality({i \in 1..Len(calls) : calls[i].state = "A"}) <= 1
    /\ Cardinality({i \in 1..Len(calls) : calls[i].state = "B"}) <= 1
    /\ Len(calls) <= 2
    /\ \A i \in 1..Len(calls) : calls[i].state \in {"A", "B"}
    /\ \A i \in 1..Len(calls), j \in 1..Len(calls) :
         i < j => (calls[i].state = "A" /\ calls[j].state = "B")
    /\ ~openai_client => calls = <<>>
    /\ Len(calls) = Cardinality(TraceOf("speech") \cap {i \in 1..Len(trace) :
                                                          trace[i].how \in AdapterOutcomes})

\* C19 witness: the adapter failed in State A and again in State B; it was
\* called twice and the call went on to State C.
C19_Witness ==
    /\ pc = "done"
    /\ ladder = "C"
    /\ Len(calls) = 2
    /\ calls[1].outcome = "fail"
    /\ calls[2].outcome = "fail"

\* the stages of State A, in the order of the code
StagesOfA == <<"format", "speech", "bed", "decode", "effects", "sync", "mix">>

\* the entries of trace that belong to State A
TraceInA == SelectSeq(trace, LAMBDA e : e.state = "A")

\* C20: the State-A entries of a call come first and are the stages format,
\* speech, bed, (decode,) effects, sync, mix in that order from the start,
\* none twice; every stage but the last one run returned; and a call that
\* ends in State A ran them all and returns what the mixer exported from
\* the synced vocal.
C20_StageOrder ==
    /\ SubSeq(trace, 1, Len(TraceInA)) = TraceInA
    /\ \/ /\ Len(TraceInA) <= Len(StagesOfA)
          /\ \A i \in 1..Len(TraceInA) : TraceInA[i].step = StagesOfA[i]
       \/ /\ ~openai_client
          /\ Len(TraceInA) = 1
          /\ TraceInA[1].step = "speech"
          /\ TraceInA[1].how = "unavailable"
    /\ \A i \in 1..Len(TraceInA) : i < Len(TraceInA) => TraceInA[i].ok
    /\ (pc = "done" /\ ladder = "A") =>
         /\ Len(trace) = Len(StagesOfA)
         /\ trace[Len(trace)].ok
         /\ trace[Len(trace)].out = trace[Len(trace) - 1].out
         /\ result.kind = "mix"
         /\ result.kbps = MixBitrate
         /\ result.ms = trace[Len(trace) - 1].out.ms
         /\ result.text = _format_lyrics_for_tts(lyrics)

\* C20 witness: a call ran all the stages of State A, stretched the vocal
\* in tempo sync and returned the mix.
C20_Witness ==
    /\ pc = "done"
    /\ ladder = "A"
    /\ Len(trace) = 7
    /\ trace[6].how = "stretched"
    /\ trace[5].how = "basic"
    /\ result.kind = "mix"

(***************************************************************************)
(* The formatter on its own: a text of up to MaxLines lines is drawn from  *)
(* LinePool and formatted.                                                 *)
(***************************************************************************)
LinePool ==
    { <<"[", "H", "O", "O", "K", "]">>,                                  \* "[HOOK]"
      <<"[", "c", "h", "o", "r", "u", "s", "]">>,                        \* "[chorus]"
      <<"[", "V", "E", "R", "S", "E", " ", "1", "]">>,                   \* "[VERSE 1]"
      <<"[", "H", "O", "O", "K", "]", " ", "T", "e", "s", "t", " ",
        "f", "i", "r", "e">>,                                            \* "[HOOK] Test fire"
      <<" ", " ", "[", "C", "h", "o", "r", "u", "s", "]", "\t">>,        \* "  [Chorus]\t"
      <<>>,                                                              \* ""
      <<"s", "p", "i", "t", " ", "f", "i", "r", "e", "!">>,              \* "spit fire!"
      <<"F", "i", "r", "e", "f", "l", "y", " ", "f", "l", "o", "w", "?">>, \* "Firefly flow?"
      <<"w", "h", "a", "t", " ", "a", " ", "n", "a", "t", "i", "o", "n">>, \* "what a nation"
      <<"[", " ", "H", "O", "O", "K", " ", "]">>,                        \* "[ HOOK ]"
      <<"r", "o", "a", "s", "t", "i", "n", "g", " ", "b", "e", "a", "t", "s",
        " ", "n", "o", "w">>,                                            \* "roasting beats now"
      <<"a", "!", "b", " ", "?">>,                                       \* "a!b ?"
      <<"[", "]">>,                                                      \* "[]"
      <<"g", "o", "!", "!", " ", "w", "h", "y", "?", "?">>,              \* "go!! why??"
      <<"o", "h", " ", "Y", "E", "A", "H", "!", " ", "U", "H", "!">>,    \* "oh YEAH! UH!"
      <<"D", "r", "o", "p", " ", "i", "t", " ", " ", "l", "o", "w">> }   \* "Drop it  low"

FmtTexts ==
    {Join(ls, <<"\n">>) : ls \in UNION {[1..n -> LinePool] : n \in 0..MaxLines}}

InitFmt ==
    /\ fmtIn \in FmtTexts
    /\ fmtLog = {}
    /\ openai_client = FALSE
    /\ pc = "idle"
    /\ ladder = "none"
    /\ lyrics = <<>>
    /\ config = [speed |-> 11, beat_type |-> "trap", target_bpm |-> 90]
    /\ vocals_audio = NoBytes
    /\ beat_audio = NoBed
    /\ processed_vocals = NoSegment
    /\ result = NoBytes
    /\ raised = FALSE
    /\ calls = <<>>
    /\ stages = <<>>
    /\ trace = <<>>
    /\ invocations = 0
    /\ SideIdle
    /\ beatReq = [style |-> "none", duration_ms |-> 0]
    /\ beatOut = [made |-> FALSE, ms |-> 0, stamps |-> <<>>]
    /\ mixIn = [vocal |-> 0, bed |-> 0]
    /\ mixOut = MixIdle

\* tts_text = self._format_lyrics_for_tts(fmtIn)
Format ==
    /\ fmtLog = {}
    /\ fmtLog' = {FormatCall(fmtIn)}
    /\ UNCHANGED <<openai_client, pc, ladder, lyrics, config, vocals_audio, beat_audio,
                   processed_vocals, result, raised, calls, stages, invocations,
                   fmtIn, beatReq, beatOut, mixIn, sideVars, trace, mixOut>>

NextFmt == Format

SpecFmt == InitFmt /\ [][NextFmt]_vars

(***************************************************************************)
(* The formatter: claims C8 to C10.                                        *)
(***************************************************************************)
\* the stripped non-empty lines of a text, in order
RECURSIVE LyricLines(_)
LyricLines(lines) ==
    IF lines = <<>> THEN <<>>
    ELSE (IF Strip(lines[1]) = <<>> THEN <<>> ELSE <<Strip(lines[1])>>)
         \o LyricLines(Tail(lines))

LinesOf(text) == LyricLines(SplitOn(text, "\n"))

\* a line that opens with "[" and closes with "]"
Bracketed(line) == Len(line) >= 1 /\ line[1] = "[" /\ line[Len(line)] = "]"

\* the word contains an emphasis keyword, whatever its letter case
ContainsEmphasisKeyword(word) ==
    \E k \in 1..Len(EmphasisKeywords), i \in 1..Len(word) :
        /\ i + Len(EmphasisKeywords[k]) - 1 <= Len(word)
        /\ \A j \in 1..Len(EmphasisKeywords[k]) :
             CharLower(word[i + j - 1]) = EmphasisKeywords[k][j]

\* a formatted line with the rhythm markers taken out again
RECURSIVE Unmark(_)
Unmark(s) ==
    IF s = <<>> THEN <<>>
    ELSE IF StartsWith(s, YeahMarker)
    THEN <<"!">> \o Unmark(SubSeq(s, Len(YeahMarker) + 1, Len(s)))
    ELSE IF StartsWith(s, UhMarker)
    THEN <<"?">> \o Unmark(SubSeq(s, Len(UhMarker) + 1, Len(s)))
    ELSE <<s[1]>> \o Unmark(Tail(s))

HookMarker == <<"[", "H", "O", "O", "K", "]">>
HookWord == <<"H", "O", "O", "K">>
FireflyWord == <<"F", "i", "r", "e", "f", "l", "y">>
FireflyUpper == <<"F", "I", "R", "E", "F", "L", "Y">>
NationWord == <<"n", "a", "t", "i", "o", "n", ",">>

C9_SectionMarkers ==
    \A e \in fmtLog :
       /\ Len(e.lines) = Len(LinesOf(e.in))
       /\ \A i \in 1..Len(e.lines) :
            Bracketed(LinesOf(e.in)[i]) =>
              e.lines[i] = IF Upper(SectionName(LinesOf(e.in)[i])) \in HookNames
                           THEN HookPause ELSE Pause
       /\ Contains(e.in, HookMarker) =>
            /\ Contains(e.out, HookPause)
            /\ ~Contains(e.out, HookWord)

\* C10: in a non-bracketed line every token that contains an emphasis
\* keyword (in any letter case) comes out fully upper-cased, and every other
\* token comes out with its letters as they were (at most a comma added).
C10_Emphasis ==
    \A e \in fmtLog :
       /\ Len(e.lines) = Len(LinesOf(e.in))
       /\ \A i \in 1..Len(e.lines) :
            ~Bracketed(LinesOf(e.in)[i]) =>
              LET words == SplitWords(LinesOf(e.in)[i])
                  spoken == SplitWords(Unmark(e.lines[i]))
              IN  /\ Len(spoken) = Len(words)
                  /\ \A j \in 1..Len(words) :
                       IF ContainsEmphasisKeyword(words[j])
                       THEN spoken[j] = Upper(words[j])
                       ELSE spoken[j] \in {words[j], words[j] \o <<",">>}

\* C10 witness: a formatted text held "Firefly" (a keyword in mixed case),
\* which came out "FIREFLY", next to a token without a keyword.
C10_Witness ==
    \E e \in fmtLog :
       /\ Contains(e.in, FireflyWord)
       /\ Contains(e.out, FireflyUpper)
       /\ Contains(e.out, NationWord)

\* the token ends in one of tion, ing, ight, ate, ack, ow
EndsInRhymeSuffix(word) ==
    \E k \in 1..Len(RhymeSuffixes) :
        /\ Len(word) >= Len(RhymeSuffixes[k])
        /\ \A j \in 1..Len(RhymeSuffixes[k]) :
             word[Len(word) - Len(RhymeSuffixes[k]) + j] = RhymeSuffixes[k][j]

\* C11: in a non-bracketed line every token that ends in a rhyme suffix
\* comes out with a trailing comma, whether or not the token also contains
\* an emphasis keyword.
C11_RhymeComma ==
    \A e \in fmtLog :
       /\ Len(e.lines) = Len(LinesOf(e.in))
       /\ \A i \in 1..Len(e.lines) :
            ~Bracketed(LinesOf(e.in)[i]) =>
              LET words == SplitWords(LinesOf(e.in)[i])
                  spoken == SplitWords(Unmark(e.lines[i]))
              IN  /\ Len(spoken) = Len(words)
                  /\ \A j \in 1..Len(words) :
                       EndsInRhymeSuffix(words[j]) =>
                         spoken[j][Len(spoken[j])] = ","

\* C11 for tokens without an emphasis keyword: the part of the claim the
\* formatter keeps.
C11_RhymeCommaWithoutKeyword ==
    \A e \in fmtLog :
       \A i \in 1..Len(e.lines) :
            ~Bracketed(LinesOf(e.in)[i]) =>
              LET words == SplitWords(LinesOf(e.in)[i])
                  spoken == SplitWords(Unmark(e.lines[i]))
              IN  \A j \in 1..Len(words) :
                     (EndsInRhymeSuffix(words[j]) /\ ~ContainsEmphasisKeyword(words[j])) =>
                       spoken[j] = words[j] \o <<",">>

(***************************************************************************)
(* The formatter: claim C24.                                               *)
(***************************************************************************)
\* how many times the text p occurs in s
CountOf(s, p) ==
    Cardinality({i \in 1..(Len(s) - Len(p) + 1) : SubSeq(s, i, i + Len(p) - 1) = p})

Yeah == <<"Y", "E", "A", "H", "!">>
Uh == <<"U", "H", "!">>

BedDurations == {u * DurUnit : u \in 0..MaxDurUnits} \cup {PlaceholderMs}

InitBeat ==
    /\ beatReq \in [style : Styles, duration_ms : BedDurations]
    /\ beatOut = [made |-> FALSE, ms |-> 0, stamps |-> <<>>]
    /\ InitPipeline
    /\ openai_client = FALSE
    /\ fmtIn = <<>>
    /\ fmtLog = {}
    /\ mixIn = [vocal |-> 0, bed |-> 0]
    /\ mixOut = MixIdle
    /\ SideIdle

\* the rhythm bed of the requested style and duration is synthesized
SynthesizeBed ==
    /\ ~beatOut.made
    /\ LET bed == IF beatReq.duration_ms = PlaceholderMs
                  THEN _create_placeholder_beat(beatReq.style)
                  ELSE PlaceholderBeat(beatReq.style, beatReq.duration_ms)
       IN  beatOut' = [made |-> TRUE, ms |-> bed.ms, stamps |-> bed.stamps]
    /\ UNCHANGED <<openai_client, pc, ladder, lyrics, config, vocals_audio, beat_audio,
                   processed_vocals, result, raised, calls, stages, invocations,
                   fmtIn, fmtLog, beatReq, mixIn, sideVars, trace, mixOut>>

NextBeat == SynthesizeBed

SpecBeat == InitBeat /\ [][NextBeat]_vars

(***************************************************************************)
(* The rhythm bed: claims C6 and C7.                                       *)
(***************************************************************************)
\* where the tones of one instrument were stamped
StampedAt(name) ==
    {beatOut.stamps[i].at : i \in {j \in 1..Len(beatOut.stamps) : beatOut.stamps[j].name = name}}

StampCount(name) ==
    Cardinality({j \in 1..Len(beatOut.stamps) : beatOut.stamps[j].name = name})

\* the bars of the requested bed: bar b starts at 2000 * b ms
BarsOfBed == {b \in 0..(beatReq.duration_ms \div 2000) : 2000 * b < beatReq.duration_ms}

\* C6: for every style and every requested duration the synthesized bed is
\* exactly as long as requested, and no stamped tone reaches past its end.
C6_BedLength ==
    beatOut.made =>
      /\ beatOut.ms = beatReq.duration_ms
      /\ \A i \in 1..Len(beatOut.stamps) :
           LET st == beatOut.stamps[i]
           IN  st.heard >= 0 /\ (st.heard > 0 => st.at + st.heard <= beatReq.duration_ms)

\* C6 witness: a bed was synthesized whose last bar is cut short, so that
\* one tone was cut at the end of the bed and another fell wholly past it.
C6_Witness ==
    /\ beatOut.made
    /\ beatOut.ms = beatReq.duration_ms
    /\ \E i \in 1..Len(beatOut.stamps) :
         /\ beatOut.stamps[i].at < beatOut.ms
         /\ beatOut.stamps[i].at + beatOut.stamps[i].tone.ms > beatOut.ms
    /\ \E i \in 1..Len(beatOut.stamps) : beatOut.stamps[i].at >= beatOut.ms

\* C7: in the trap bed every bar has a kick on each of its 4 beats, a snare
\* at 500 and 1500 ms, a hi-hat on each sixteenth (125 ms) that is not a
\* kick position, and a sub-bass at the bar start exactly when the bar
\* index is a multiple of 8; nothing else is stamped and nothing twice.
C7_TrapPattern ==
    (beatOut.made /\ beatReq.style = "trap") =>
      /\ StampedAt("kick") = {2000 * b + 500 * k : b \in BarsOfBed, k \in 0..3}
      /\ StampedAt("snare") = {2000 * b + o : b \in BarsOfBed, o \in {500, 1500}}
      /\ StampedAt("hi_hat") =
           {2000 * b + 125 * x : b \in BarsOfBed, x \in {y \in 0..15 : y % 4 # 0}}
      /\ StampedAt("hi_hat") \cap StampedAt("kick") = {}
      /\ StampedAt("bass_drop") = {2000 * b : b \in {c \in BarsOfBed : c % 8 = 0}}
      /\ StampCount("kick") = 4 * Cardinality(BarsOfBed)
      /\ StampCount("snare") = 2 * Cardinality(BarsOfBed)
      /\ StampCount("hi_hat") = 12 * Cardinality(BarsOfBed)
      /\ StampCount("bass_drop") = Cardinality({c \in BarsOfBed : c % 8 = 0})
      /\ Len(beatOut.stamps) = StampCount("kick") + StampCount("snare")
                               + StampCount("hi_hat") + StampCount("bass_drop")

\* C7 witness: the 180000 ms trap bed, with its sub-bass at bar 0 and bar 8
\* and none at bar 1.
C7_Witness ==
    /\ beatOut.made
    /\ beatReq.style = "trap"
    /\ beatReq.duration_ms = PlaceholderMs
    /\ {0, 16000} \subseteq StampedAt("bass_drop")
    /\ 2000 \notin StampedAt("bass_drop")
    /\ 176000 \in StampedAt("bass_drop")

(***************************************************************************)
(* The rhythm bed: claims C22 and C23.                                     *)
(***************************************************************************)
\* where the house bed has a hi-hat of either kind
HatsAt == StampedAt("hi_hat_closed") \cup StampedAt("hi_hat_open")

\* the kicks and claps of the house bed: a kick on all 4 beats, a clap on
\* beats 2 and 4, each once
HouseKicksAndClaps ==
    /\ StampedAt("kick") = {2000 * b + 500 * k : b \in BarsOfBed, k \in 0..3}
    /\ StampedAt("clap") = {2000 * b + o : b \in BarsOfBed, o \in {500, 1500}}
    /\ StampCount("kick") = 4 * Cardinality(BarsOfBed)
    /\ StampCount("clap") = 2 * Cardinality(BarsOfBed)

\* C22: in the house bed every bar has a kick on each of its 4 beats, a
\* clap on beats 2 and 4, and one hi-hat on each of its 8 eighths (every
\* 250 ms), closed and open in turn from one eighth to the next.
C22_HousePattern ==
    (beatOut.made /\ beatReq.style = "boom_bap") =>
      /\ HouseKicksAndClaps
      /\ HatsAt = {2000 * b + 250 * e : b \in BarsOfBed, e \in 0..7}
      /\ StampedAt("hi_hat_closed") \cap StampedAt("hi_hat_open") = {}
      /\ StampCount("hi_hat_closed") + StampCount("hi_hat_open") = 8 * Cardinality(BarsOfBed)
      /\ \A b \in BarsOfBed, e \in 0..6 :
           (2000 * b + 250 * e \in StampedAt("hi_hat_closed"))
             # (2000 * b + 250 * (e + 1) \in StampedAt("hi_hat_closed"))

\* C22 as the code has it: the kicks and claps of the claim, and a hi-hat on
\* the 4 off-beat eighths only, closed on the first three and open on the
\* last.
C22_HousePatternOffBeats ==
    (beatOut.made /\ beatReq.style = "boom_bap") =>
      /\ HouseKicksAndClaps
      /\ StampedAt("hi_hat_closed") = {2000 * b + 250 * e : b \in BarsOfBed, e \in {1, 3, 5}}
      /\ StampedAt("hi_hat_open") = {2000 * b + 1750 : b \in BarsOfBed}
      /\ StampCount("hi_hat_closed") + StampCount("hi_hat_open") = 4 * Cardinality(BarsOfBed)

\* C23: in the progressive bed every bar has a kick at 0, 1250 and 1750 ms,
\* one snare at 500 ms, a percussion hit at 750, 1375 and 1625 ms, and a bass
\* at the bar start exactly when the bar index is even; nothing else is
\* stamped and nothing twice.
C23_ProgressivePattern ==
    (beatOut.made /\ beatReq.style = "lofi") =>
      /\ StampedAt("kick") = {2000 * b + o : b \in BarsOfBed, o \in {0, 1250, 1750}}
      /\ StampedAt("snare") = {2000 * b + 500 : b \in BarsOfBed}
      /\ StampedAt("perc") = {2000 * b + o : b \in BarsOfBed, o \in {750, 1375, 1625}}
      /\ StampedAt("bass") = {2000 * b : b \in {c \in BarsOfBed : c % 2 = 0}}
      /\ StampCount("kick") = 3 * Cardinality(BarsOfBed)
      /\ StampCount("snare") = Cardinality(BarsOfBed)
      /\ StampCount("perc") = 3 * Cardinality(BarsOfBed)
      /\ StampCount("bass") = Cardinality({c \in BarsOfBed : c % 2 = 0})
      /\ Len(beatOut.stamps) = StampCount("kick") + StampCount("snare")
                               + StampCount("perc") + StampCount("bass")

\* C23 witness: the 180000 ms progressive bed, with a kick two and a half
\* beats into its second bar, a bass at bars 0 and 2 and none at bar 1.
C23_Witness ==
    /\ beatOut.made
    /\ beatReq.style = "lofi"
    /\ beatReq.duration_ms = PlaceholderMs
    /\ 3250 \in StampedAt("kick")
    /\ 3375 \in StampedAt("perc")
    /\ {0, 4000} \subseteq StampedAt("bass")
    /\ 2000 \notin StampedAt("bass")

(***************************************************************************)
(* The mixer on its own: a vocal and a bed of given lengths are mixed.      *)
(***************************************************************************)
InitMix ==
    /\ mixIn \in [vocal : 0..MaxVocalLen, bed : 0..MaxBedLen]
    /\ mixOut = MixIdle
    /\ InitPipeline
    /\ openai_client = FALSE
    /\ fmtIn = <<>>
    /\ fmtLog = {}
    /\ beatReq = [style |-> "none", duration_ms |-> 0]
    /\ beatOut = [made |-> FALSE, ms |-> 0, stamps |-> <<>>]
    /\ SideIdle

\* final_mix = await self._mix_audio(processed_vocals, beat_audio, audio_config)
Mix ==
    /\ mixOut.state = "idle"
    /\ mixOut' = _mix_audio([ms |-> mixIn.vocal, gain |-> 0], [ms |-> mixIn.bed, gain |-> 0])
    /\ UNCHANGED <<openai_client, pc, ladder, lyrics, config, vocals_audio, beat_audio,
                   processed_vocals, result, raised, calls, stages, invocations,
                   fmtIn, fmtLog, beatReq, beatOut, mixIn, sideVars, trace>>

NextMix == Mix

SpecMix == InitMix /\ [][NextMix]_vars

(***************************************************************************)
(* The mixer: claim C5.                                                    *)
(***************************************************************************)
\* C5: for every vocal length and every bed length the mixer returns, the
\* bed it overlays was looped and trimmed to exactly the vocal's length, and
\* the mix has exactly the vocal's length.
C5_MixLength ==
    mixOut.state # "idle" =>
      /\ mixOut.state = "ok"
      /\ mixOut.beat_ms = mixIn.vocal
      /\ mixOut.ms = mixIn.vocal

\* C5 for beds that are not empty: the part of the claim the mixer keeps.
C5_MixLengthOfNonEmptyBed ==
    (mixOut.state # "idle" /\ mixIn.bed > 0) =>
      /\ mixOut.state = "ok"
      /\ mixOut.beat_ms = mixIn.vocal
      /\ mixOut.ms = mixIn.vocal

(***************************************************************************)
(* The mixer: claim C25.                                                   *)
(***************************************************************************)
\* where in the steps of the mix a statement of one kind was run
MixStepsOf(op) == {i \in 1..Len(mixOut.steps) : mixOut.steps[i].op = op}

\* C25: a mix that is returned went through loop (only for a bed shorter
\* than the vocal) and trim of the bed, then a gain of +12 dB on the vocal
\* and of -6 dB on the bed, then the overlay, then one normalization, of the
\* combined signal, then the encoding at 192 kbps, with nothing in between;
\* each step was run once.
C25_MixOrder ==
    mixOut.state = "ok" =>
      LET n == Len(mixOut.steps)
          st == mixOut.steps
      IN  /\ \A op \in {"trim", "overlay", "normalize", "export"} :
                Cardinality(MixStepsOf(op)) = 1
          /\ Cardinality(MixStepsOf("loop")) = IF mixIn.bed < mixIn.vocal THEN 1 ELSE 0
          /\ \A i \in MixStepsOf("loop") : i = 1 /\ st[i].on = "beat"
          /\ \A i \in MixStepsOf("trim") : i = n - 5 /\ st[i].on = "beat"
          /\ MixStepsOf("gain") = {n - 4, n - 3}
          /\ {[on |-> st[i].on, by |-> st[i].by] : i \in MixStepsOf("gain")}
               = {[on |-> "vocals", by |-> 12], [on |-> "beat", by |-> 0 - 6]}
          /\ \A i \in MixStepsOf("overlay") : i = n - 2
          /\ \A i \in MixStepsOf("normalize") : i = n - 1 /\ st[i].on = "mixed"
          /\ \A i \in MixStepsOf("export") : i = n /\ st[i].by = 192
          /\ mixOut.kbps = 192

\* C25 witness: a bed shorter than the vocal was looped, and the mix was
\* returned after seven steps.
C25_Witness ==
    /\ mixOut.state = "ok"
    /\ mixIn.bed > 0
    /\ mixIn.bed < mixIn.vocal
    /\ Len(mixOut.steps) = 7
    /\ mixOut.steps[1].op = "loop"
    /\ mixOut.steps[7].op = "export"

(***************************************************************************)
(* The vocal processing on its own: one run of _process_vocals on the      *)
(* bytes of a speech call, for every step of either effects chain that     *)
(* can raise and for a range of estimated and target tempi.                *)
(***************************************************************************)
VocalLengths == {3000}

\* AudioConfig.target_bpm is an int that nothing validates
Targets == {0 - 90, 0, 60, 90, 125}

\* what beat_track estimates, in tenths of a BPM.  Its tempi are
\* 60 * sr / (512 * lag) for the sample rate sr of the decoded MP3, which is
\* never 11/10 of a whole number of BPM (no MP3 rate is a multiple of 11):
\* 66.0, 99.0 and 137.5 are left out.
Tempos == {0, 450, 540, 810, 811, 899, 900, 901, 989, 991, 1125, 1200, 1376, 1800}

VocalEnvs ==
    [decoded : BOOLEAN, normalized : BOOLEAN, ms : VocalLengths, mainFails : MainFailures,
     basicFails : BasicFailures,
     tempo : {[ok |-> FALSE, bpm |-> 0]} \cup {[ok |-> TRUE, bpm |-> b] : b \in Tempos},
     stretchable : BOOLEAN]

InitVocal ==
    /\ vocalIn \in [size : {0, 1}, target_bpm : Targets, env : VocalEnvs]
    /\ vocalOut = [state |-> "idle"]
    /\ InitPipeline
    /\ openai_client = FALSE
    /\ fmtIn = <<>>
    /\ fmtLog = {}
    /\ beatReq = [style |-> "none", duration_ms |-> 0]
    /\ beatOut = [made |-> FALSE, ms |-> 0, stamps |-> <<>>]
    /\ mixIn = [vocal |-> 0, bed |-> 0]
    /\ mixOut = MixIdle
    /\ CastIdle
    /\ LoopIdle
    /\ AppIdle

\* processed_vocals = await self._process_vocals(vocals_audio, audio_config)
ProcessVocals ==
    /\ vocalOut.state = "idle"
    /\ vocalOut' = _process_vocals([size |-> vocalIn.size], vocalIn.target_bpm, vocalIn.env)
    /\ UNCHANGED <<openai_client, pc, ladder, lyrics, config, vocals_audio, beat_audio,
                   processed_vocals, result, raised, calls, stages, invocations, trace,
                   fmtIn, fmtLog, beatReq, beatOut, mixIn, mixOut, vocalIn, castIn,
                   castOut, tasks, running, appVars>>

NextVocal == ProcessVocals

SpecVocal == InitVocal /\ [][NextVocal]_vars

(***************************************************************************)
(* The vocal processing: claims C12 and C13.                               *)
(***************************************************************************)
\* the entries of a run for one component
RanOf(step) == {i \in 1..Len(vocalOut.ran) : vocalOut.ran[i].step = step}

\* C12: whenever the effects component is called it returns a processed
\* segment, whichever step of the default chain or of the fallback chain
\* raises; it never raises to _process_vocals.
C12_EffectsAlwaysReturn ==
    vocalOut.state # "idle" =>
      \A i \in RanOf("effects") :
         /\ vocalOut.ran[i].ok
         /\ vocalOut.ran[i].out.fx \in {"main", "basic"}

\* C12 for a fallback chain that does not raise: the part of the claim the
\* effects component keeps.
C12_EffectsReturnUnlessBasicRaises ==
    (vocalOut.state # "idle" /\ vocalIn.env.basicFails = "none") =>
      \A i \in RanOf("effects") :
         /\ vocalOut.ran[i].ok
         /\ vocalOut.ran[i].out.fx = IF vocalIn.env.mainFails = "none" THEN "main" ELSE "basic"

\* |estimated / target - 1| > 0.1 for an estimate c in tenths of a BPM and a
\* target t that is not 0: the ratio c / (10 t) is above 11/10 or below 9/10
DriftsMoreThanTenth(c, t) ==
    IF t > 0 THEN (c > 11 * t \/ c < 9 * t) ELSE (c < 11 * t \/ c > 9 * t)

FallbackChainSound ==
    /\ vocalOut.state # "idle"
    /\ vocalIn.size > 0
    /\ vocalIn.env.decoded
    /\ vocalIn.env.basicFails = "none"

\* the effects stage ran the simpler chain, in its order, and handed its
\* result to tempo sync
SimplerChainHandedToSync ==
    /\ RanOf("effects") # {}
    /\ RanOf("sync") # {}
    /\ \A i \in RanOf("effects") :
          /\ vocalOut.ran[i].ok
          /\ vocalOut.ran[i].how = "basic"
          /\ vocalOut.ran[i].out.steps =
                <<"compress", "low_pass", "high_pass", "gain", "normalize">>
    /\ \A i \in RanOf("sync") :
          /\ vocalOut.ran[i - 1].step = "effects"
          /\ vocalOut.ran[i].out.steps = vocalOut.ran[i - 1].out.steps
          /\ vocalOut.ran[i].out.fx = "basic"

\* C21: if a step of the default chain fails (the peak normalization, or the
\* compression, the reverb or the limiter), the simpler chain is run in the
\* order compression, low-pass, high-pass, gain, normalize, and its result
\* is what tempo sync is given.
C21_SimplerChainOnAnyFailure ==
    (FallbackChainSound /\ (~vocalIn.env.normalized \/ vocalIn.env.mainFails # "none")) =>
       SimplerChainHandedToSync

\* C21 for the steps of the default chain that _apply_audio_effects runs:
\* the part of the claim the code keeps.
C21_SimplerChainWhenEffectsFail ==
    (FallbackChainSound /\ vocalIn.env.normalized /\ vocalIn.env.mainFails # "none") =>
       SimplerChainHandedToSync

(***************************************************************************)
(* Sample conversions.  Every stage that works on a float array writes it  *)
(* back as 16-bit samples: it scales by 2**15 and casts with               *)
(* astype(np.int16); pydub's gain multiplies the 16-bit samples.  Float    *)
(* values are in thousandths.                                              *)
(***************************************************************************)
FullScale == 32768         \* 2**15
Int16Max == 32767          \* 2**15 - 1
SoftClip == 950            \* np.clip(final_processed, -0.95, 0.95)

\* a / b rounded toward zero, as astype(np.int16) rounds a float
TruncDiv(a, b) == IF a >= 0 THEN a \div b ELSE 0 - ((0 - a) \div b)

\* np.clip(x, lo, hi)
Clip(x, lo, hi) == IF x < lo THEN lo ELSE IF x > hi THEN hi ELSE x

\* the low 16 bits of v, read as a signed sample
Wrap16(v) == ((v + FullScale) % (2 * FullScale)) - FullScale

\* astype(np.int16) of a float whose integer part is v: v when it fits; the
\* cast of a value that does not fit is undefined in C, and gives the low 16
\* bits or the nearest bound
CastInt16(v) ==
    IF v >= 0 - FullScale /\ v <= Int16Max THEN {v}
    ELSE {Wrap16(v), Clip(v, 0 - FullScale, Int16Max)}

\* _create_tone: wave = sin(...) * volume; (wave * (2**15)).astype(np.int16)
\* for a sine value x (thousandths) and a volume k (hundredths); the
\* fraction 2**15 / 100000 is written in lowest terms
ToneBeforeCast(x, k) == TruncDiv(x * k * (FullScale \div 32), 100000 \div 32)

\* _apply_audio_effects: np.clip(final_processed, -0.95, 0.95), then
\* (final_processed * (2**15)).astype(np.int16)
EffectsBeforeCast(x) == TruncDiv(Clip(x, 0 - SoftClip, SoftClip) * FullScale, 1000)

\* _sync_to_bpm: (stretched * (2**15)).astype(np.int16)
SyncBeforeCast(x) == TruncDiv(x * FullScale, 1000)

\* _mix_with_ducking: np.clip(final_samples * (2**15), -2**15, 2**15-1).astype(np.int16)
DuckingBeforeCast(x) == Clip(TruncDiv(x * FullScale, 1000), 0 - FullScale, Int16Max)

\* AudioSegment.apply_gain: audioop.mul of a 16-bit sample x by a factor k
\* (thousandths), which bounds the product to the 16-bit range
GainBeforeCast(x, k) == Clip(TruncDiv(x * k, 1000), 0 - FullScale, Int16Max)

\* the value a stage hands to the cast
BeforeCast(c) ==
    IF c.stage = "tone" THEN ToneBeforeCast(c.x, c.k)
    ELSE IF c.stage = "effects" THEN EffectsBeforeCast(c.x)
    ELSE IF c.stage = "sync" THEN SyncBeforeCast(c.x)
    ELSE IF c.stage = "ducking" THEN DuckingBeforeCast(c.x)
    ELSE GainBeforeCast(c.x, c.k)

\* float values of a sample, in thousandths: a sine, a processed or a
\* time-stretched signal
FloatValues == {0 - 1500, 0 - 1000, 0 - 950, 0 - 500, 0, 707, 949, 999, 1000, 1220}

\* volumes of a tone, in hundredths: those of the beds, and full volume
Volumes == {0, 20, 25, 30, 40, 50, 60, 70, 80, 90, 100}

\* the gains of the mixer and of the basic effects as factors, in
\* thousandths: +12 dB, -6 dB, +3 dB
GainFactors == {3981, 501, 1413}

CastInputs ==
    {[stage |-> "tone", x |-> x, k |-> k] :
        x \in {v \in FloatValues : v >= 0 - 1000 /\ v <= 1000}, k \in Volumes}
    \cup {[stage |-> st, x |-> x, k |-> 0] :
             st \in {"effects", "sync", "ducking"}, x \in FloatValues}
    \cup {[stage |-> "gain", x |-> x, k |-> k] :
             x \in {0 - FullScale, 0 - 20000, 0, 9000, Int16Max}, k \in GainFactors}

InitCast ==
    /\ castIn \in CastInputs
    /\ castOut = [state |-> "idle"]
    /\ InitPipeline
    /\ openai_client = FALSE
    /\ fmtIn = <<>>
    /\ fmtLog = {}
    /\ beatReq = [style |-> "none", duration_ms |-> 0]
    /\ beatOut = [made |-> FALSE, ms |-> 0, stamps |-> <<>>]
    /\ mixIn = [vocal |-> 0, bed |-> 0]
    /\ mixOut = MixIdle
    /\ VocalIdle
    /\ LoopIdle
    /\ AppIdle

\* a stage writes one sample
Convert ==
    /\ castOut.state = "idle"
    /\ \E sample \in CastInt16(BeforeCast(castIn)) :
         castOut' = [state |-> "done", before |-> BeforeCast(castIn), sample |-> sample]
    /\ UNCHANGED <<openai_client, pc, ladder, lyrics, config, vocals_audio, beat_audio,
                   processed_vocals, result, raised, calls, stages, invocations, trace,
                   fmtIn, fmtLog, beatReq, beatOut, mixIn, mixOut, vocalIn, vocalOut,
                   castIn, tasks, running, appVars>>

NextCast == Convert

SpecCast == InitCast /\ [][NextCast]_vars

(***************************************************************************)
(* Sample conversions: claim C15.                                          *)
(***************************************************************************)
\* C15: in every stage the value handed to the 16-bit cast lies in
\* [-32768, 32767], so the sample written is that value and never a
\* wrapped one, for every volume up to 1 and every float value.
C15_NoWraparound ==
    castOut.state = "done" =>
      /\ castOut.before >= 0 - 32768
      /\ castOut.before <= 32767
      /\ castOut.sample = castOut.before

\* C15 for the stages that bound the value before the cast (effects chain,
\* ducking mix, gain), and for the tone oscillator below full volume: the
\* part of the claim the code keeps.
C15_NoWraparoundWhereClipped ==
    (/\ castOut.state = "done"
     /\ \/ castIn.stage \in {"effects", "ducking", "gain"}
        \/ castIn.stage = "tone" /\ castIn.k < 100) =>
      /\ castOut.before >= 0 - 32768
      /\ castOut.before <= 32767
      /\ castOut.sample = castOut.before

(***************************************************************************)
(* The event loop.  app.py keeps one AudioPipeline for the process and     *)
(* awaits generate_audio in the background task of each job; the tasks     *)
(* share one thread.  A task gives the thread up only where it awaits the  *)
(* speech adapter's response; every other stage of the call is plain code  *)
(* of a coroutine and runs on the thread until it returns.                 *)
(***************************************************************************)
Jobs == {"job1", "job2"}

IoNone == [state |-> "none", outcome |-> "none"]
IoInFlight == [state |-> "inflight", outcome |-> "none"]

\* the locals of a generate_audio call that was not started yet
NewLocal(full_lyrics, audio_config) ==
    [pc |-> "new", ladder |-> "none", lyrics |-> full_lyrics, config |-> audio_config,
     vocals_audio |-> NoBytes, beat_audio |-> NoBed, processed_vocals |-> NoSegment,
     result |-> NoBytes, raised |-> FALSE, io |-> IoNone, log |-> <<>>]

\* the lyrics and configuration of the jobs
LoopInputs ==
    { NewLocal(LyricsOwnLine, [speed |-> 10, beat_type |-> "trap", target_bpm |-> 90]),
      NewLocal(LyricsInline, [speed |-> 15, beat_type |-> "lofi", target_bpm |-> 0]) }

\* what the beat file and the audio libraries do during a stage of a job
LoopAssets == {[state |-> "missing", ms |-> 0], [state |-> "ok", ms |-> 120000]}

LoopEnvs ==
    { [decoded |-> TRUE, normalized |-> TRUE, ms |-> 3000, mainFails |-> "none", basicFails |-> "none",
       tempo |-> [ok |-> TRUE, bpm |-> 900], stretchable |-> TRUE],
      [decoded |-> TRUE, normalized |-> TRUE, ms |-> 3000, mainFails |-> "board", basicFails |-> "compress",
       tempo |-> [ok |-> FALSE, bpm |-> 0], stretchable |-> FALSE] }

\* what the environment contributes to one stage: the adapter's response,
\* the beat file, the audio libraries, the encoder
NoChoice ==
    [outcome |-> "none", asset |-> [state |-> "missing", ms |-> 0],
     env |-> [decoded |-> TRUE, normalized |-> TRUE, ms |-> 3000, mainFails |-> "none", basicFails |-> "none",
              tempo |-> [ok |-> TRUE, bpm |-> 900], stretchable |-> TRUE],
     flag |-> FALSE]

Choices(l) ==
    IF l.pc = "beat" THEN {[NoChoice EXCEPT !.asset = a] : a \in LoopAssets}
    ELSE IF l.pc = "process" THEN {[NoChoice EXCEPT !.env = e] : e \in LoopEnvs}
    ELSE IF l.pc \in {"mix", "silence"} THEN {[NoChoice EXCEPT !.flag = f] : f \in BOOLEAN}
    ELSE {NoChoice}

\* one stage of generate_audio on the locals l of a call: the code from one
\* position of the call to the next, given what the environment does
Advance(l, client, ch) ==
    LET logged == [l EXCEPT !.log = Append(l.log, ch)]
        toB == [logged EXCEPT !.ladder = "B", !.pc = "fallback", !.io = IoNone]
        toC == [logged EXCEPT !.ladder = "C", !.pc = "silence", !.io = IoNone]
        text == FormatCall(l.lyrics).out
    IN  CASE l.pc = "new" -> [logged EXCEPT !.pc = "vocals", !.ladder = "A"]
          [] l.pc = "vocals" ->
               IF ~client THEN toB
               ELSE [logged EXCEPT !.pc = "await_A", !.io = IoInFlight]
          [] l.pc = "await_A" ->
               IF ch.outcome = "fail" THEN toB
               ELSE [logged EXCEPT !.pc = "beat", !.io = IoNone,
                                   !.vocals_audio =
                                       SpeechBytes(text, Max(l.config.speed, MinRapSpeed),
                                                   ch.outcome)]
          [] l.pc = "beat" ->
               LET loaded == _load_beat(l.config.beat_type, ch.asset)
               IN  IF loaded.state = "ok"
                   THEN [logged EXCEPT !.pc = "process", !.beat_audio = loaded.bed]
                   ELSE toB
          [] l.pc = "process" ->
               LET done == _process_vocals(l.vocals_audio, l.config.target_bpm, ch.env)
               IN  IF done.state = "ok"
                   THEN [logged EXCEPT !.pc = "mix", !.processed_vocals = done.audio]
                   ELSE toB
          [] l.pc = "mix" ->
               LET mixed == _mix_audio([ms |-> l.processed_vocals.ms, gain |-> 0],
                                       [ms |-> l.beat_audio.ms, gain |-> 0])
               IN  IF mixed.state = "ok" /\ ch.flag
                   THEN [logged EXCEPT !.pc = "done",
                                       !.result = [kind |-> "mix", text |-> l.vocals_audio.text,
                                                   speed |-> l.vocals_audio.speed, size |-> 1,
                                                   ms |-> mixed.ms, kbps |-> mixed.kbps]]
                   ELSE toB
          [] l.pc = "fallback" ->
               IF ~client THEN toC
               ELSE [logged EXCEPT !.pc = "await_B", !.io = IoInFlight]
          [] l.pc = "await_B" ->
               IF ch.outcome = "fail" THEN toC
               ELSE [logged EXCEPT !.pc = "done", !.io = IoNone,
                                   !.result = SpeechBytes(text, l.config.speed, ch.outcome)]
          [] l.pc = "silence" ->
               IF ch.flag
               THEN [logged EXCEPT !.pc = "done",
                                   !.result = [kind |-> "silence", text |-> <<>>, speed |-> 0,
                                               size |-> 1, ms |-> SilenceMs, kbps |-> 0]]
               ELSE [logged EXCEPT !.pc = "done", !.raised = TRUE]
          [] OTHER -> l

\* (Faulty variant: the vocals are kept on the pipeline instance, and a job
\* reads the ones another job put there.)
LocalsOf_VocalsOnInstance(j) ==
    LET others == {u \in Jobs \ {j} : tasks[u].vocals_audio # NoBytes}
    IN  IF others = {} \/ tasks[j].vocals_audio = NoBytes THEN tasks[j]
        ELSE [tasks[j] EXCEPT !.vocals_audio = tasks[CHOOSE u \in others : TRUE].vocals_audio]

\* what the code of job j reads: its own parameters and local variables
LocalsOf(j) == tasks[j]

\* the thread goes back to the loop where the call awaits the adapter and
\* where it returns
YieldsAt(l) == l.pc \in {"await_A", "await_B", "done"}

InitLoop ==
    /\ tasks \in [Jobs -> LoopInputs]
    /\ running = "none"
    /\ InitPipeline
    /\ fmtIn = <<>>
    /\ fmtLog = {}
    /\ beatReq = [style |-> "none", duration_ms |-> 0]
    /\ beatOut = [made |-> FALSE, ms |-> 0, stamps |-> <<>>]
    /\ mixIn = [vocal |-> 0, bed |-> 0]
    /\ mixOut = MixIdle
    /\ VocalIdle
    /\ CastIdle
    /\ AppIdle

LoopUnchanged ==
    UNCHANGED <<openai_client, pc, ladder, lyrics, config, vocals_audio, beat_audio,
                processed_vocals, result, raised, calls, stages, invocations, trace,
                fmtIn, fmtLog, beatReq, beatOut, mixIn, mixOut, vocalIn, vocalOut,
                castIn, castOut, appVars>>

\* the loop starts the task of a job: generate_audio is entered
StartJob ==
    /\ running = "none"
    /\ \E j \in Jobs :
         /\ tasks[j].pc = "new"
         /\ tasks' = [tasks EXCEPT ![j] = Advance(LocalsOf(j), openai_client, NoChoice)]
         /\ running' = j
    /\ LoopUnchanged

\* the job that holds the thread runs its next stage
RunStage ==
    /\ running \in Jobs
    /\ tasks[running].pc \in {"vocals", "beat", "process", "mix", "fallback", "silence"}
    /\ \E ch \in Choices(tasks[running]) :
         LET next == Advance(LocalsOf(running), openai_client, ch)
         IN  /\ tasks' = [tasks EXCEPT ![running] = next]
             /\ running' = IF YieldsAt(next) THEN "none" ELSE running
    /\ LoopUnchanged

\* the adapter's response to a job arrives
ResponseArrives ==
    /\ \E j \in Jobs, outcome \in AdapterOutcomes :
         /\ tasks[j].io.state = "inflight"
         /\ tasks' = [tasks EXCEPT ![j].io = [state |-> "ready", outcome |-> outcome]]
    /\ UNCHANGED running
    /\ LoopUnchanged

\* the loop can hand the thread to job j, whose response has arrived
Resumable(j) == running = "none" /\ tasks[j].io.state = "ready"

\* the loop resumes a job at its await
ResumeJob ==
    /\ \E j \in Jobs :
         /\ Resumable(j)
         /\ LET next == Advance(LocalsOf(j), openai_client,
                                [NoChoice EXCEPT !.outcome = tasks[j].io.outcome])
            IN  /\ tasks' = [tasks EXCEPT ![j] = next]
                /\ running' = IF YieldsAt(next) THEN "none" ELSE j
    /\ LoopUnchanged

NextLoop == StartJob \/ RunStage \/ ResponseArrives \/ ResumeJob

SpecLoop == InitLoop /\ [][NextLoop]_vars

(***************************************************************************)
(* The event loop: claims C16 and C17.                                     *)
(***************************************************************************)
\* a call made alone, from its start, with the responses the log holds
RECURSIVE Replay(_, _, _)
Replay(l, client, log) ==
    IF log = <<>> THEN l ELSE Replay(Advance(l, client, Head(log)), client, Tail(log))

Alone(j) == Replay(NewLocal(tasks[j].lyrics, tasks[j].config), openai_client, tasks[j].log)

\* the fields of the locals of a call that its own stages write
Owned(l) ==
    [pc |-> l.pc, ladder |-> l.ladder, vocals_audio |-> l.vocals_audio,
     beat_audio |-> l.beat_audio, processed_vocals |-> l.processed_vocals,
     result |-> l.result, raised |-> l.raised, log |-> l.log]

InCpuStage(j) == running = j /\ tasks[j].pc \in {"beat", "process", "mix"}

\* C17: while a job is inside a CPU-bound stage, the loop can resume
\* another job whose adapter response has arrived.
C17_LoopStaysFree ==
    \A j \in Jobs, u \in Jobs :
       (j # u /\ InCpuStage(j) /\ tasks[u].io.state = "ready") => Resumable(u)

(***************************************************************************)
(* The application around the pipeline (src/backend/app.py).  Everything   *)
(* of the pipeline is at rest in its specifications.                       *)
(***************************************************************************)
PipelineIdle ==
    /\ InitPipeline
    /\ openai_client = FALSE
    /\ fmtIn = <<>>
    /\ fmtLog = {}
    /\ beatReq = [style |-> "none", duration_ms |-> 0]
    /\ beatOut = [made |-> FALSE, ms |-> 0, stamps |-> <<>>]
    /\ mixIn = [vocal |-> 0, bed |-> 0]
    /\ mixOut = MixIdle
    /\ VocalIdle
    /\ CastIdle
    /\ LoopIdle

PipelineUnchanged ==
    UNCHANGED <<openai_client, pc, ladder, lyrics, config, vocals_audio, beat_audio,
                processed_vocals, result, raised, calls, stages, invocations, trace,
                fmtIn, fmtLog, beatReq, beatOut, mixIn, mixOut, vocalIn, vocalOut,
                castIn, castOut, tasks, running>>

(***************************************************************************)
(* The beat assets: create_sample_beats at startup, then _load_beat.       *)
(***************************************************************************)
\* for beat_type in ["trap", "boom_bap", "lofi"]
SampleStyles == <<"trap", "boom_bap", "lofi">>

\* beat_path = self.beats_dir / f"{beat_type}_beat.mp3"
sample_beat_files ==
    [trap |-> "trap_beat.mp3", boom_bap |-> "boom_bap_beat.mp3", lofi |-> "lofi_beat.mp3"]

\* the file names either function knows
BeatFileNames ==
    {beat_files[s] : s \in Styles} \cup {sample_beat_files[s] : s \in Styles}

\* the loop of create_sample_beats over the styles left: a file that exists
\* is kept; one that does not is exported, and what export raises (for the
\* style failAt) leaves the function
RECURSIVE WriteSamples(_, _, _)
WriteSamples(dir, styles, failAt) ==
    IF styles = <<>> THEN [state |-> "done", dir |-> dir]
    ELSE LET beat_path == sample_beat_files[Head(styles)]
         IN  IF beat_path \in dir THEN WriteSamples(dir, Tail(styles), failAt)
             ELSE IF Head(styles) = failAt THEN [state |-> "raised", dir |-> dir]
             ELSE WriteSamples(dir \cup {beat_path}, Tail(styles), failAt)

create_sample_beats(dir, failAt) == WriteSamples(dir, SampleStyles, failAt)

\* the directory holds any of the files when the application starts
InitAssets ==
    /\ beats_dir \in SUBSET BeatFileNames
    /\ setup = "idle"
    /\ loadOut = NotLoaded
    /\ JobIdle
    /\ LyricIdle
    /\ PipelineIdle

\* lifespan: audio_pipeline.create_sample_beats(), in a try block that logs
\* what it raises
CreateSampleBeats ==
    /\ setup = "idle"
    /\ \E failAt \in {"none"} \cup Styles :
         LET out == create_sample_beats(beats_dir, failAt)
         IN  /\ beats_dir' = out.dir
             /\ setup' = out.state
    /\ UNCHANGED <<loadOut, jobVars, lyricVars>>
    /\ PipelineUnchanged

\* beat_audio = await self._load_beat(audio_config.beat_type), in a request
\* served after startup; a file that is there loads or is unreadable
LoadBeat ==
    /\ setup # "idle"
    /\ \E beat_type \in Styles, readable \in BOOLEAN :
         LET asset == IF beat_files[beat_type] \notin beats_dir
                      THEN [state |-> "missing", ms |-> 0]
                      ELSE IF readable THEN [state |-> "ok", ms |-> PlaceholderMs]
                      ELSE [state |-> "corrupt", ms |-> 0]
         IN  loadOut' = [loadOut EXCEPT ![beat_type] =
                            [state |-> "loaded", asset |-> asset.state,
                             bed |-> _load_beat(beat_type, asset).bed]]
    /\ UNCHANGED <<beats_dir, setup, jobVars, lyricVars>>
    /\ PipelineUnchanged

NextAssets == CreateSampleBeats \/ LoadBeat

SpecAssets == InitAssets /\ [][NextAssets]_vars

(***************************************************************************)
(* The beat assets: claim C26.                                             *)
(***************************************************************************)
\* C26: once create_sample_beats has completed, the file _load_beat looks
\* up is there for every style, and unless it is unreadable the bed that is
\* returned is the file's and not a synthesized one.
C26_SamplesAreLoaded ==
    \A s \in Styles :
       (setup = "done" /\ loadOut[s].state = "loaded") =>
          /\ loadOut[s].asset # "missing"
          /\ loadOut[s].asset = "ok" => loadOut[s].bed.src = "file"

\* C26 for the two styles whose file names agree: trap and lofi.
C26_SamplesAreLoadedButBoomBap ==
    \A s \in Styles \ {"boom_bap"} :
       (setup = "done" /\ loadOut[s].state = "loaded") =>
          /\ loadOut[s].asset # "missing"
          /\ loadOut[s].asset = "ok" => loadOut[s].bed.src = "file"

(***************************************************************************)
(* The jobs: create_roast stores a JobStatus and starts the background     *)
(* task process_roast_generation, whose stages run one after the other     *)
(* with the requests of clients in between.  A progress is kept in         *)
(* hundredths.                                                             *)
(***************************************************************************)
JobIds == {"job1", "job2"}

TotalSteps == 5            \* progress = ProgressTracker(5)

\* JobStatus(job_id=job_id, status="pending", current_step="Initializing...")
NewJobStatus ==
    [status |-> "pending", progress |-> 0, current_step |-> "Initializing...",
     steps_completed |-> 0, error_message |-> "none"]

\* the messages of the calls of update_job_progress, by step
StepMessages ==
    << "Scraping profile data...", "Writing rap lyrics...", "Creating audio track...",
       "Creating music video...", "Finalizing results..." >>

\* ProgressTracker.complete_step
complete_step(current_step, step_number) == Max(current_step, step_number)

\* ProgressTracker.get_progress: the percentage and the step
get_progress(current_step) ==
    [progress |-> (current_step * 100) \div TotalSteps, current_step |-> current_step]

\* (Faulty variant: the percentage is stored as it is.)
ProgressFraction_Percentage(percent) == percent * 100

\* progress_data["progress"] / 100, in hundredths
ProgressFraction(percent) == percent

\* update_job_progress on the tracker and the JobStatus of a job
update_job_progress(job_status, tracker, step, message) ==
    LET current == complete_step(tracker, step)
        progress_data == get_progress(current)
    IN  [tracker |-> current,
         job |-> [job_status EXCEPT !.progress = ProgressFraction(progress_data.progress),
                                    !.current_step = message,
                                    !.steps_completed = progress_data.current_step]]

\* (Faulty variant: the result goes to the cache only.)
StoreJobResult_CacheOnly(results, job_id, generation) == results

\* job_results[job_id] = result
StoreJobResult(results, job_id, generation) == (job_id :> generation) @@ results

\* (Faulty variant: the WebSocket send is awaited outside a try block.)
NotifyRaises_Unguarded(connected, sent) == connected /\ ~sent

\* the send of a notification is in a try block with a bare except: what it
\* raises stays there
NotifyRaises(connected, sent) == FALSE

\* how the send of a notification went
Notified(j, sent) ==
    IF j \notin websocket_connections THEN "no_socket"
    ELSE IF sent THEN "sent" ELSE "failed"

\* GET /api/status/{job_id}, with nothing about the job in the cache
get_job_status(j) ==
    IF j \in DOMAIN active_jobs
    THEN [code |-> 200, status |-> active_jobs[j].status, progress |-> active_jobs[j].progress]
    ELSE [code |-> 404, status |-> "none", progress |-> 0]

\* GET /api/result/{job_id}, with nothing about the job in the cache
get_result(j) ==
    IF j \in DOMAIN job_results THEN 200
    ELSE IF j \in DOMAIN active_jobs
    THEN IF active_jobs[j].status = "failed" THEN 500 ELSE 202
    ELSE 404

InitJobs ==
    /\ JobIdle
    /\ AssetIdle
    /\ LyricIdle
    /\ PipelineIdle

JobsUnchanged == UNCHANGED <<assetVars, lyricVars>> /\ PipelineUnchanged

\* POST /api/roast
CreateRoast ==
    /\ \E j \in JobIds \ DOMAIN active_jobs, include_video \in BOOLEAN :
         /\ active_jobs' = (j :> NewJobStatus) @@ active_jobs
         /\ bg' = (j :> [pc |-> "update", step |-> 1, tracker |-> 0,
                         include_video |-> include_video, notified |-> "none"]) @@ bg
    /\ UNCHANGED <<job_results, audio_storage, video_storage, websocket_connections>>
    /\ JobsUnchanged

\* the except clause of process_roast_generation, up to its notification
FailJob(j) ==
    /\ active_jobs' = [active_jobs EXCEPT ![j].status = "failed", ![j].error_message = "error"]
    /\ bg' = [bg EXCEPT ![j].pc = "notify_error"]

\* await update_job_progress(job_id, progress, step, message); its send is
\* in a try block
UpdateJobProgress ==
    /\ \E j \in DOMAIN bg :
         /\ bg[j].pc = "update"
         /\ LET u == update_job_progress(active_jobs[j], bg[j].tracker, bg[j].step,
                                         StepMessages[bg[j].step])
            IN  /\ active_jobs' = [active_jobs EXCEPT ![j] = u.job]
                /\ bg' = [bg EXCEPT ![j].tracker = u.tracker, ![j].pc = "work"]
    /\ UNCHANGED <<job_results, audio_storage, video_storage, websocket_connections>>
    /\ JobsUnchanged

\* step 1: the profile is scraped or made from the manual text
ScrapeProfile ==
    /\ \E j \in DOMAIN bg, ok \in BOOLEAN :
         /\ bg[j].pc = "work" /\ bg[j].step = 1
         /\ IF ok
            THEN bg' = [bg EXCEPT ![j].pc = "update", ![j].step = 2] /\ UNCHANGED active_jobs
            ELSE FailJob(j)
    /\ UNCHANGED <<job_results, audio_storage, video_storage, websocket_connections>>
    /\ JobsUnchanged

\* step 2: lyrics_generator.generate_lyrics_from_search
GenerateLyrics ==
    /\ \E j \in DOMAIN bg, ok \in BOOLEAN :
         /\ bg[j].pc = "work" /\ bg[j].step = 2
         /\ IF ok
            THEN bg' = [bg EXCEPT ![j].pc = "update", ![j].step = 3] /\ UNCHANGED active_jobs
            ELSE FailJob(j)
    /\ UNCHANGED <<job_results, audio_storage, video_storage, websocket_connections>>
    /\ JobsUnchanged

\* step 3: create_audio_config, generate_audio, audio_storage[job_id] =
\* audio_bytes; step 4 follows if request.include_video
GenerateAudio ==
    /\ \E j \in DOMAIN bg, ok \in BOOLEAN :
         /\ bg[j].pc = "work" /\ bg[j].step = 3
         /\ IF ok
            THEN /\ audio_storage' = (j :> "audio_bytes") @@ audio_storage
                 /\ bg' = [bg EXCEPT ![j].pc = "update",
                                     ![j].step = IF bg[j].include_video THEN 4 ELSE 5]
                 /\ UNCHANGED active_jobs
            ELSE FailJob(j) /\ UNCHANGED audio_storage
    /\ UNCHANGED <<job_results, video_storage, websocket_connections>>
    /\ JobsUnchanged

\* step 4: generate_video raises, returns bytes or returns nothing
GenerateVideo ==
    /\ \E j \in DOMAIN bg, outcome \in {"raise", "bytes", "none"} :
         /\ bg[j].pc = "work" /\ bg[j].step = 4
         /\ IF outcome = "raise"
            THEN FailJob(j) /\ UNCHANGED video_storage
            ELSE /\ video_storage' = IF outcome = "bytes"
                                     THEN (j :> "video_bytes") @@ video_storage
                                     ELSE video_storage
                 /\ bg' = [bg EXCEPT ![j].pc = "update", ![j].step = 5]
                 /\ UNCHANGED active_jobs
    /\ UNCHANGED <<job_results, audio_storage, websocket_connections>>
    /\ JobsUnchanged

\* step 5: the GenerationResult is made and stored; then the cache is awaited
StoreResult ==
    /\ \E j \in DOMAIN bg, ok \in BOOLEAN :
         /\ bg[j].pc = "work" /\ bg[j].step = 5
         /\ IF ok
            THEN /\ job_results' =
                      StoreJobResult(job_results, j,
                                     [job_id |-> j, video |-> j \in DOMAIN video_storage])
                 /\ bg' = [bg EXCEPT ![j].pc = "complete"]
                 /\ UNCHANGED active_jobs
            ELSE FailJob(j) /\ UNCHANGED job_results
    /\ UNCHANGED <<audio_storage, video_storage, websocket_connections>>
    /\ JobsUnchanged

\* job_status.status = "completed", progress = 1.0, current_step = "Complete!"
CompleteJob ==
    /\ \E j \in DOMAIN bg :
         /\ bg[j].pc = "complete"
         /\ active_jobs' = [active_jobs EXCEPT ![j].status = "completed",
                                               ![j].progress = 100,
                                               ![j].current_step = "Complete!"]
         /\ bg' = [bg EXCEPT ![j].pc = "notify"]
    /\ UNCHANGED <<job_results, audio_storage, video_storage, websocket_connections>>
    /\ JobsUnchanged

\* the completion is sent over the WebSocket of the job, if there is one
NotifyComplete ==
    /\ \E j \in DOMAIN bg, sent \in BOOLEAN :
         /\ bg[j].pc = "notify"
         /\ IF NotifyRaises(j \in websocket_connections, sent)
            THEN FailJob(j)
            ELSE /\ bg' = [bg EXCEPT ![j].pc = "done", ![j].notified = Notified(j, sent)]
                 /\ UNCHANGED active_jobs
    /\ UNCHANGED <<job_results, audio_storage, video_storage, websocket_connections>>
    /\ JobsUnchanged

\* the error is sent over the WebSocket of the job, if there is one
NotifyError ==
    /\ \E j \in DOMAIN bg, sent \in BOOLEAN :
         /\ bg[j].pc = "notify_error"
         /\ bg' = [bg EXCEPT ![j].pc = "done", ![j].notified = Notified(j, sent)]
    /\ UNCHANGED <<active_jobs, job_results, audio_storage, video_storage,
                   websocket_connections>>
    /\ JobsUnchanged

\* websocket_endpoint: websocket_connections[job_id] = websocket
WebSocketOpen ==
    /\ \E j \in JobIds \ websocket_connections :
         websocket_connections' = websocket_connections \cup {j}
    /\ UNCHANGED <<active_jobs, job_results, audio_storage, video_storage, bg>>
    /\ JobsUnchanged

\* websocket_endpoint: websocket_connections.pop(job_id, None)
WebSocketClose ==
    /\ \E j \in websocket_connections :
         websocket_connections' = websocket_connections \ {j}
    /\ UNCHANGED <<active_jobs, job_results, audio_storage, video_storage, bg>>
    /\ JobsUnchanged

NextJobs ==
    \/ CreateRoast
    \/ UpdateJobProgress
    \/ ScrapeProfile
    \/ GenerateLyrics
    \/ GenerateAudio
    \/ GenerateVideo
    \/ StoreResult
    \/ CompleteJob
    \/ NotifyComplete
    \/ NotifyError
    \/ WebSocketOpen
    \/ WebSocketClose

SpecJobs == InitJobs /\ [][NextJobs]_vars

(***************************************************************************)
(* The jobs: claims C27, C28 and C29                                       *)
(***************************************************************************)
\* C27: whenever the stored status of a job is "completed", job_results
\* holds its result and audio_storage its audio, so that a result request
\* made when or after the status endpoint reported "completed" is answered
\* with the result: never "still processing" (202), never "not found" (404).
C27_CompletedHasResult ==
    /\ [](\A j \in JobIds :
            get_job_status(j).status = "completed"
                => /\ j \in DOMAIN job_results
                   /\ j \in DOMAIN audio_storage
                   /\ get_result(j) = 200)
    /\ [][\A j \in JobIds :
            get_job_status(j).status = "completed"
                => /\ j \in DOMAIN job_results'
                   /\ j \in DOMAIN audio_storage'
                   /\ job_results'[j].job_id = j]_vars

\* a job is reported completed while the other one is still being processed
C27_Witness ==
    \E j, k \in JobIds :
        /\ get_job_status(j).status = "completed"
        /\ get_result(j) = 200
        /\ get_job_status(k).status = "pending"
        /\ get_result(k) = 202

\* C28: the stored status of a job changes at most once, from "pending" to
\* "completed" or from "pending" to "failed"; a job once stored stays
\* stored, and what the notifications do changes nothing.
C28_StatusChangesOnce ==
    [][\A j \in DOMAIN active_jobs :
          /\ j \in DOMAIN active_jobs'
          /\ active_jobs'[j].status # active_jobs[j].status
                => /\ active_jobs[j].status = "pending"
                   /\ active_jobs'[j].status \in {"completed", "failed"}]_vars

\* one job stays completed and the other failed after the sends of their
\* last notifications failed
C28_Witness ==
    \E j, k \in DOMAIN bg :
        /\ bg[j].pc = "done" /\ bg[j].notified = "failed"
        /\ active_jobs[j].status = "completed"
        /\ bg[k].pc = "done" /\ bg[k].notified = "failed"
        /\ active_jobs[k].status = "failed"

\* C29: the progress of a job never decreases, lies between 0 and 1 (here
\* 0 and 100 hundredths) and is 1 whenever the status is "completed", with
\* the video step and without it.
C29_ProgressMonotone ==
    /\ [](\A j \in DOMAIN active_jobs :
            /\ active_jobs[j].progress >= 0
            /\ active_jobs[j].progress <= 100
            /\ active_jobs[j].status = "completed" => active_jobs[j].progress = 100)
    /\ [][\A j \in DOMAIN active_jobs :
            active_jobs'[j].progress >= active_jobs[j].progress]_vars

\* a job with the video and a job without it are both completed, the second
\* one having gone from step 3 to step 5
C29_Witness ==
    \E j, k \in DOMAIN bg :
        /\ bg[j].include_video /\ active_jobs[j].status = "completed"
        /\ active_jobs[j].progress = 100
        /\ ~bg[k].include_video /\ active_jobs[k].status = "completed"
        /\ active_jobs[k].progress = 100
        /\ k \notin DOMAIN video_storage

(***************************************************************************)
(* The lyrics generator: generate_lyrics_from_search around the attempts   *)
(* of _generate_simple_lyrics, which tenacity runs again when one raises.  *)
(***************************************************************************)
StopAfterAttempt == 3      \* @retry(stop=stop_after_attempt(3), ...)

\* RoastRequest.style, validated by the request model
HumorStyles == {"aggressive", "playful", "witty"}

\* search_result.get("title", "Unknown Person") of three search results:
\* "Al - CTO", "Bo|Li" and one without a title
SearchTitles ==
    { <<"A", "l", " ", "-", " ", "C", "T", "O">>,
      <<"B", "o", "|", "L", "i">>,
      <<"U", "n", "k", "n", "o", "w", "n", " ", "P", "e", "r", "s", "o", "n">> }

\* what the call of a client comes to: a LyricsData, None (no content), or
\* an exception (of the API, of json.loads, of the validation of LyricsData)
ClientOutcomes == {"lyrics", "none", "raise"}

NoLyrics == [state |-> "none", source |-> "none", name |-> <<>>, style |-> "none"]

\* _create_simple_fallback_lyrics: the templated lyrics about the name
\* before the first "-" and the first "|" of the title
_create_simple_fallback_lyrics(title, style) ==
    [state |-> IF style \in HumorStyles THEN "returned" ELSE "raised",
     source |-> "fallback",
     name |-> Strip(SplitOn(SplitOn(title, "-")[1], "|")[1]),
     style |-> style]

\* the LyricsData made from the answer of a client
ClientLyrics(client, style) ==
    [state |-> "returned", source |-> client, name |-> <<>>, style |-> style]

\* (Faulty variant: an attempt that returns nothing is run again as well.)
RetryAfter_NoLyrics(outcome, attempt) ==
    outcome \in {"raise", "none"} /\ attempt < StopAfterAttempt

\* tenacity runs _generate_simple_lyrics again when an attempt raised and
\* fewer than 3 attempts were made
RetryAfter(outcome, attempt) == outcome = "raise" /\ attempt < StopAfterAttempt

\* the end of an attempt of _generate_simple_lyrics with lyrics, with None
\* or with an exception, and what generate_lyrics_from_search does of it
AttemptEnds(g, outcome, client) ==
    IF RetryAfter(outcome, g.attempt)
    THEN [g EXCEPT !.pc = "openai", !.attempt = g.attempt + 1]
    ELSE [g EXCEPT !.pc = "returned",
                   !.out = IF outcome = "lyrics"
                           THEN ClientLyrics(client, g.style)
                           ELSE _create_simple_fallback_lyrics(g.title, g.style)]

\* the call of a client is added to the calls made
Called(g, client, outcome) ==
    [g EXCEPT !.log = Append(g.log, [attempt |-> g.attempt, client |-> client,
                                     outcome |-> outcome])]

\* LyricsGenerator.__init__: a client for every API key configured
InitLyrics ==
    /\ gen \in [pc : {"ready"}, openai_client : BOOLEAN, anthropic_client : BOOLEAN]
    /\ AssetIdle
    /\ JobIdle
    /\ PipelineIdle

LyricsUnchanged == UNCHANGED <<assetVars, jobVars>> /\ PipelineUnchanged

\* generate_lyrics_from_search is called
GenerateLyricsFromSearch ==
    /\ gen.pc = "ready"
    /\ \E title \in SearchTitles, style \in HumorStyles :
         gen' = [pc |-> "openai", openai_client |-> gen.openai_client,
                 anthropic_client |-> gen.anthropic_client,
                 title |-> title, style |-> style, attempt |-> 1, log |-> <<>>,
                 out |-> NoLyrics]
    /\ LyricsUnchanged

\* if self.openai_client: try: return await _generate_simple_with_openai
TryOpenAI ==
    /\ gen.pc = "openai"
    /\ IF gen.openai_client
       THEN \E outcome \in ClientOutcomes :
              gen' = IF outcome = "raise"
                     THEN [Called(gen, "openai", outcome) EXCEPT !.pc = "anthropic"]
                     ELSE AttemptEnds(Called(gen, "openai", outcome), outcome, "openai")
       ELSE gen' = [gen EXCEPT !.pc = "anthropic"]
    /\ LyricsUnchanged

\* if self.anthropic_client: return await _generate_simple_with_anthropic;
\* return None
TryAnthropic ==
    /\ gen.pc = "anthropic"
    /\ IF gen.anthropic_client
       THEN \E outcome \in ClientOutcomes :
              gen' = AttemptEnds(Called(gen, "anthropic", outcome), outcome, "anthropic")
       ELSE gen' = AttemptEnds(gen, "none", "none")
    /\ LyricsUnchanged

NextLyrics ==
    \/ GenerateLyricsFromSearch
    \/ TryOpenAI
    \/ TryAnthropic

\* the call of a client returns or raises in the end
SpecLyrics == InitLyrics /\ [][NextLyrics]_vars /\ WF_vars(NextLyrics)

(***************************************************************************)
(* The lyrics generator: claim C30                                         *)
(***************************************************************************)
\* the calls made in an attempt
CallsOf(attempt) == {i \in 1..Len(gen.log) : gen.log[i].attempt = attempt}

\* C30: generate_lyrics_from_search makes at most 3 attempts; in an attempt
\* the Anthropic client is called only if the OpenAI client is not
\* configured or its call raised in that attempt; an attempt that returns
\* no lyrics without raising is the last one; the call ends, and it ends by
\* returning the lyrics of a client or, if no attempt gave any, the
\* templated lyrics: it never raises.
C30_LyricsTotalAndBounded ==
    /\ [](gen.pc # "ready" =>
            /\ gen.attempt \in 1..StopAfterAttempt
            /\ \A i \in 1..Len(gen.log) :
                 /\ gen.log[i].attempt \in 1..StopAfterAttempt
                 /\ gen.log[i].client = "anthropic"
                      => \/ ~gen.openai_client
                         \/ /\ i > 1
                            /\ gen.log[i - 1] = [attempt |-> gen.log[i].attempt,
                                                 client |-> "openai", outcome |-> "raise"]
                 /\ gen.log[i].outcome # "raise"
                      => i = Len(gen.log) /\ gen.pc = "returned"
            /\ \A a \in 1..StopAfterAttempt :
                 Cardinality({i \in CallsOf(a) : gen.log[i].client = "openai"}) <= 1
                 /\ Cardinality({i \in CallsOf(a) : gen.log[i].client = "anthropic"}) <= 1
            /\ gen.out.state # "raised"
            /\ gen.pc = "returned"
                 => /\ gen.out.state = "returned"
                    /\ gen.out.style = gen.style
                    /\ IF \E i \in 1..Len(gen.log) : gen.log[i].outcome = "lyrics"
                       THEN gen.out.source = gen.log[Len(gen.log)].client
                       ELSE gen.out = _create_simple_fallback_lyrics(gen.title, gen.style))
    /\ (gen.pc = "ready") ~> (gen.pc = "returned")

\* three attempts in which both clients raised, and the templated lyrics
\* about "Al" were returned
C30_Witness ==
    /\ gen.pc = "returned"
    /\ gen.attempt = StopAfterAttempt
    /\ Len(gen.log) = 2 * StopAfterAttempt
    /\ \A i \in 1..Len(gen.log) : gen.log[i].outcome = "raise"
    /\ gen.out.state = "returned"
    /\ gen.out.source = "fallback"
    /\ gen.out.name = <<"A", "l">>

====
